---- MODULE Spec2Model ----
(***************************************************************************)
(* A model of moto's in-memory S3 emulation: the request dispatcher of     *)
(* moto/s3/responses.py (ResponseObject) on top of the object store it     *)
(* calls (moto/s3/models.py, whose operations are modelled from the        *)
(* design document).                                                       *)
(*                                                                         *)
(* Representation.  A Python string that the code takes apart (a Range     *)
(* header, a grant header, a decimal number) is a sequence of characters;  *)
(* a multi-letter word that the code never looks inside ("bytes", "id")    *)
(* stands for its letters as one character.  A string the code only        *)
(* compares or passes on (a bucket name, a marker) is a TLA+ string.       *)
(* A rendered template is the record of the values the template            *)
(* substitutes.                                                            *)
(***************************************************************************)
EXTENDS Integers, Sequences, FiniteSets, TLC

VARIABLES backend, request, response, threads

vars == <<backend, request, response, threads>>

-----------------------------------------------------------------------------
(* Bounds of the model *)

MaxUploads == 2      \* upload ids the store hands out
MaxPart == 2         \* largest part number used by part uploads
MaxBodyLen == 2      \* <Part> elements in a completion body
MaxSpecLen == 5      \* characters of a range specifier
MaxLen == 10         \* content length of the object served with a range
MaxStreamLen == 2    \* content length up to which a streamed upload goes on
MaxKeys == 3         \* <Key> elements in the body of a bulk deletion

-----------------------------------------------------------------------------
(* Python values *)

None == [none |-> TRUE]

DEFAULT_REGION_NAME == "us-east-1"

Digits == {"0", "1", "2", "3", "4", "5", "6", "7", "8", "9"}

DigitVal == [c \in Digits |->
               CASE c = "0" -> 0 [] c = "1" -> 1 [] c = "2" -> 2 [] c = "3" -> 3
                 [] c = "4" -> 4 [] c = "5" -> 5 [] c = "6" -> 6 [] c = "7" -> 7
                 [] c = "8" -> 8 [] c = "9" -> 9]

Min(a, b) == IF a <= b THEN a ELSE b

AllDigits(s) == Len(s) > 0 /\ \A i \in 1..Len(s) : s[i] \in Digits

RECURSIVE DecimalValue(_)
DecimalValue(s) ==
    IF s = <<>> THEN 0
    ELSE 10 * DecimalValue(SubSeq(s, 1, Len(s) - 1)) + DigitVal[s[Len(s)]]

\* int(s): [ok |-> FALSE] stands for ValueError
int(s) ==
    IF AllDigits(s) THEN [ok |-> TRUE, val |-> DecimalValue(s)]
    ELSE IF Len(s) > 1 /\ s[1] = "-" /\ AllDigits(Tail(s))
         THEN [ok |-> TRUE, val |-> 0 - DecimalValue(Tail(s))]
         ELSE [ok |-> FALSE, val |-> 0]

\* s.split(sep): the pieces of s between the occurrences of sep
RECURSIVE split(_, _)
split(s, sep) ==
    IF \A i \in 1..Len(s) : s[i] # sep THEN <<s>>
    ELSE LET p == CHOOSE i \in 1..Len(s) :
                      s[i] = sep /\ \A j \in 1..(i - 1) : s[j] # sep
         IN  <<SubSeq(s, 1, p - 1)>> \o split(SubSeq(s, p + 1, Len(s)), sep)

\* s.strip()
RECURSIVE strip(_)
strip(s) ==
    IF s # <<>> /\ s[1] = " " THEN strip(Tail(s))
    ELSE IF s # <<>> /\ s[Len(s)] = " " THEN strip(SubSeq(s, 1, Len(s) - 1))
         ELSE s

\* dict.get over a header list of <<name, value>> pairs
HasHeader(headers, name) == \E i \in 1..Len(headers) : headers[i][1] = name

GetHeader(headers, name, default) ==
    IF HasHeader(headers, name)
    THEN headers[CHOOSE i \in 1..Len(headers) : headers[i][1] = name][2]
    ELSE default

\* dict.update on the response headers (a function from names to values)
Update(headers, more) == more @@ headers

\* the empty dict
EmptyDict == [x \in {} |-> x]

\* name = value, then the statements F that follow the assignment
With(value, F(_)) == F(value)


\* header names are <<prefix, rest>>: <<"x-amz-grant-", "read">> is x-amz-grant-read
GrantPrefix == "x-amz-grant-"

X_AMZ_ACL == <<"x-amz-", "acl">>

X_AMZ_COPY_SOURCE == <<"x-amz-", "copy-source">>

RANGE == <<"", "range">>

-----------------------------------------------------------------------------
(* Responses: what bucket_response / key_response hand to the transport.   *)
(* raised = "None" is a (status, headers, body) triple; any other value is *)
(* the class of the exception that escapes the call.                       *)

\* a body of raw bytes; a rendered template or a parsed document is a record
\* of the values it holds
Bytes(content) == [bytes |-> content]

Response(status, headers, body) ==
    [raised |-> "None", msg |-> "", status |-> status,
     headers |-> headers, body |-> body]

Raise(class, msg) ==
    [raised |-> class, msg |-> msg, status |-> 0,
     headers |-> EmptyDict, body |-> Bytes(<<>>)]

render(template, values) == [template |-> template, values |-> values]

-----------------------------------------------------------------------------
(* Range resolver *)

\* str(n) for n >= 0: the decimal digits of n
RECURSIVE str(_)
str(n) == IF n < 10 THEN <<CHOOSE c \in Digits : DigitVal[c] = n>>
          ELSE str(n \div 10) \o <<CHOOSE c \in Digits : DigitVal[c] = n % 10>>

\* toint = lambda i: int(i) if i else None
toint(i) == IF i = <<>> THEN [ok |-> TRUE, none |-> TRUE, val |-> 0]
            ELSE With(int(i), LAMBDA n : [ok |-> n.ok, none |-> FALSE, val |-> n.val])

\* "bytes {0}-{1}/{2}".format(begin, end, length)
ContentRange(begin, end, length) ==
    <<"bytes", " ">> \o str(begin) \o <<"-">> \o str(end) \o <<"/">> \o str(length)

\* mutant: the slice stops before the byte at end
Slice_exclusive(content, begin, end) == SubSeq(content, begin + 1, Min(end, Len(content)))

\* response_content[begin:end + 1] for 0 <= begin
Slice(content, begin, end) == SubSeq(content, begin + 1, Min(end + 1, Len(content)))

_handle_range_header(req, headers, response_content) ==
    LET length == Len(response_content.bytes)
        last   == length - 1
    IN
    With(split(GetHeader(req.headers, RANGE, <<>>), "="), LAMBDA fields :
    IF Len(fields) # 2 THEN Raise("ValueError", "unpack")
    ELSE
    LET rspec == fields[2] IN
    IF \E i \in 1..Len(rspec) : rspec[i] = ","
    THEN Raise("NotImplementedError", "Multiple range specifiers not supported")
    ELSE
    With(split(rspec, "-"), LAMBDA pieces :
    IF \E i \in 1..Len(pieces) : ~toint(pieces[i]).ok
    THEN Raise("ValueError", "int")
    ELSE IF Len(pieces) # 2 THEN Raise("ValueError", "unpack")
    ELSE
    With(toint(pieces[1]), LAMBDA b :
    With(toint(pieces[2]), LAMBDA e :
    IF b.none /\ e.none THEN Response(400, headers, Bytes(<<>>))
    ELSE
    With(IF ~b.none THEN b.val ELSE length - Min(e.val, length), LAMBDA begin :
    With(IF ~b.none THEN (IF e.none THEN last ELSE Min(e.val, last)) ELSE last,
         LAMBDA end :
    IF begin < 0 \/ end > last \/ begin > Min(end, last)
    THEN Response(416, headers, Bytes(<<>>))
    ELSE Response(206,
                  Update(headers, "content-range" :> ContentRange(begin, end, length)),
                  Bytes(Slice(response_content.bytes, begin, end)))))))))

-----------------------------------------------------------------------------
(* ACL resolver *)

FakeGrantee(id, uri) == [id |-> id, uri |-> uri]

FakeGrant(grantees, permissions) == [grantees |-> grantees, permissions |-> permissions]

FakeAcl(grants) == [grants |-> grants]

\* the fixed lookup table of canned ACLs
get_canned_acl(acl) ==
    LET ALL_USERS_GRANTEE ==
            FakeGrantee(<<>>, <<"http://acs.amazonaws.com/groups/global/AllUsers">>)
        AUTHENTICATED_USERS_GRANTEE ==
            FakeGrantee(<<>>, <<"http://acs.amazonaws.com/groups/global/AuthenticatedUsers">>)
        OWNER_GRANTEE == FakeGrantee(<<"owner">>, <<>>)
        owner == <<FakeGrant(<<OWNER_GRANTEE>>, <<"FULL_CONTROL">>)>>
    IN
    FakeAcl(CASE acl = "private" -> owner
              [] acl = "public-read" ->
                   owner \o <<FakeGrant(<<ALL_USERS_GRANTEE>>, <<"READ">>)>>
              [] acl = "public-read-write" ->
                   owner \o <<FakeGrant(<<ALL_USERS_GRANTEE>>, <<"READ", "WRITE">>)>>
              [] acl = "authenticated-read" ->
                   owner \o <<FakeGrant(<<AUTHENTICATED_USERS_GRANTEE>>, <<"READ">>)>>)

PermissionOf ==
    [h \in {"read", "write", "read-acp", "write-acp", "full-control"} |->
        CASE h = "read" -> "READ"
          [] h = "write" -> "WRITE"
          [] h = "read-acp" -> "READ_ACP"
          [] h = "write-acp" -> "WRITE_ACP"
          [] h = "full-control" -> "FULL_CONTROL"]

QUOTE == "\""

\* key.lower()
lower(s) == [i \in 1..Len(s) |-> CASE s[i] = "ID" -> "id"
                                   [] s[i] = "Id" -> "id"
                                   [] s[i] = "URI" -> "uri"
                                   [] OTHER -> s[i]]

\* re.match('([^=]+)="([^"]+)"', s): ok = FALSE is no match (None)
re_match(s) ==
    LET eqs == {i \in 1..Len(s) : s[i] = "="} IN
    IF eqs = {} THEN [ok |-> FALSE, key |-> <<>>, value |-> <<>>]
    ELSE
    LET p  == CHOOSE i \in eqs : \A j \in eqs : i <= j
        qs == {i \in (p + 2)..Len(s) : s[i] = QUOTE}
    IN
    IF p < 2 \/ p + 1 > Len(s) \/ s[p + 1] # QUOTE \/ qs = {}
    THEN [ok |-> FALSE, key |-> <<>>, value |-> <<>>]
    ELSE
    LET q == CHOOSE i \in qs : \A j \in qs : i <= j IN
    IF q < p + 3 THEN [ok |-> FALSE, key |-> <<>>, value |-> <<>>]
    ELSE [ok |-> TRUE, key |-> SubSeq(s, 1, p - 1), value |-> SubSeq(s, p + 2, q - 1)]

\* the inner loop of _acl_from_headers over value.split(",")
RECURSIVE Grantees(_)
Grantees(items) ==
    IF items = <<>> THEN [ok |-> TRUE, grantees |-> <<>>]
    ELSE
    With(re_match(strip(Head(items))), LAMBDA m :
    With(Grantees(Tail(items)), LAMBDA rest :
    IF ~m.ok \/ ~rest.ok THEN [ok |-> FALSE, grantees |-> <<>>]
    ELSE [ok |-> TRUE,
          grantees |-> <<IF lower(m.key) = <<"id">>
                         THEN FakeGrantee(m.value, <<>>)
                         ELSE FakeGrantee(<<>>, m.value)>> \o rest.grantees]))

\* the outer loop of _acl_from_headers over headers.items()
RECURSIVE Grants(_)
Grants(headers) ==
    IF headers = <<>> THEN [raised |-> "None", grants |-> <<>>]
    ELSE
    LET header == Head(headers)[1]
        value  == Head(headers)[2]
    IN
    IF header[1] # GrantPrefix THEN Grants(Tail(headers))
    ELSE IF header[2] \notin DOMAIN PermissionOf
    THEN [raised |-> "KeyError", grants |-> <<>>]
    ELSE
    With(Grantees(split(value, ",")), LAMBDA g :
    IF ~g.ok THEN [raised |-> "AttributeError", grants |-> <<>>]
    ELSE
    With(Grants(Tail(headers)), LAMBDA rest :
    IF rest.raised # "None" THEN rest
    ELSE [raised |-> "None",
          grants |-> <<FakeGrant(g.grantees, <<PermissionOf[header[2]]>>)>> \o rest.grants]))

\* mutant: the grant headers are parsed before the canned header is looked at
_acl_from_headers_grants_first(headers) ==
    With(Grants(headers), LAMBDA g :
    IF g.raised # "None" THEN [raised |-> g.raised, ret |-> None]
    ELSE IF g.grants # <<>> THEN [raised |-> "None", ret |-> FakeAcl(g.grants)]
    ELSE
    With(GetHeader(headers, X_AMZ_ACL, ""), LAMBDA canned_acl :
    IF canned_acl # "" THEN [raised |-> "None", ret |-> get_canned_acl(canned_acl)]
    ELSE [raised |-> "None", ret |-> None]))

_acl_from_headers(headers) ==
    With(GetHeader(headers, X_AMZ_ACL, ""), LAMBDA canned_acl :
    IF canned_acl # "" THEN [raised |-> "None", ret |-> get_canned_acl(canned_acl)]
    ELSE
    With(Grants(headers), LAMBDA g :
    IF g.raised # "None" THEN [raised |-> g.raised, ret |-> None]
    ELSE IF g.grants # <<>> THEN [raised |-> "None", ret |-> FakeAcl(g.grants)]
    ELSE [raised |-> "None", ret |-> None]))

-----------------------------------------------------------------------------
(* The object store behind the dispatcher (s3_backend).  backend.buckets   *)
(* maps the names of the existing buckets to their state; backend.issued   *)
(* counts the upload ids handed out so far.  Every operation returns       *)
(* [backend, exc, ret]: the store after the call, the error it raised      *)
(* ("" for none) and its return value.                                     *)

Put(f, k, v) == (k :> v) @@ f

Remove(f, k) == [x \in DOMAIN f \ {k} |-> f[x]]


FakeKey(name, value, storage) ==
    [name |-> name, value |-> value, storage_class |-> storage,
     acl |-> get_canned_acl("private"), metadata |-> EmptyDict,
     expiry_date |-> <<>>]

\* versioning_status <<>> and policy None are the unset values
FakeBucket(name, region_name) ==
    [name |-> name, location |-> region_name,
     acl |-> get_canned_acl("private"),
     versioning_status |-> <<>>, policy |-> None,
     keys |-> EmptyDict, multiparts |-> EmptyDict]

FakeMultipart(key_name, metadata, id) ==
    [id |-> id, key_name |-> key_name, metadata |-> metadata, parts |-> EmptyDict]

Ok(be, ret) == [backend |-> be, exc |-> "", ret |-> ret]

Fail(be, exc) == [backend |-> be, exc |-> exc, ret |-> None]

\* errors of the S3ClientError family, which the dispatcher converts
S3ClientError == {"NoSuchBucket", "BucketAlreadyExists", "InvalidPartOrder",
                  "NoSuchUpload", "InvalidPart"}

HasBucket(be, bucket_name) == bucket_name \in DOMAIN be.buckets

SetBucket(be, bucket_name, bucket) ==
    [be EXCEPT !.buckets = Put(be.buckets, bucket_name, bucket)]

get_bucket(be, bucket_name) ==
    IF HasBucket(be, bucket_name) THEN Ok(be, be.buckets[bucket_name])
    ELSE Fail(be, "NoSuchBucket")

create_bucket(be, bucket_name, region_name) ==
    IF HasBucket(be, bucket_name) THEN Fail(be, "BucketAlreadyExists")
    ELSE With(FakeBucket(bucket_name, region_name), LAMBDA new_bucket :
         Ok(SetBucket(be, bucket_name, new_bucket), new_bucket))

\* ret [removed |-> FALSE] is the falsy "not empty, not removed" result
delete_bucket(be, bucket_name) ==
    IF ~HasBucket(be, bucket_name) THEN Fail(be, "NoSuchBucket")
    ELSE IF DOMAIN be.buckets[bucket_name].keys # {}
    THEN Ok(be, [removed |-> FALSE])
    ELSE Ok([be EXCEPT !.buckets = Remove(be.buckets, bucket_name)],
            [removed |-> TRUE])

set_bucket_acl(be, bucket_name, acl) ==
    IF ~HasBucket(be, bucket_name) THEN Fail(be, "NoSuchBucket")
    ELSE Ok(SetBucket(be, bucket_name, [be.buckets[bucket_name] EXCEPT !.acl = acl]),
            None)

\* the accessors of the versioning mode and the policy document: plain get
\* and set of the field, after the check that the bucket exists
set_bucket_versioning(be, bucket_name, status) ==
    IF ~HasBucket(be, bucket_name) THEN Fail(be, "NoSuchBucket")
    ELSE Ok(SetBucket(be, bucket_name,
                      [be.buckets[bucket_name] EXCEPT !.versioning_status = status]),
            None)

get_bucket_versioning(be, bucket_name) ==
    IF ~HasBucket(be, bucket_name) THEN Fail(be, "NoSuchBucket")
    ELSE Ok(be, be.buckets[bucket_name].versioning_status)

set_bucket_policy(be, bucket_name, policy) ==
    IF ~HasBucket(be, bucket_name) THEN Fail(be, "NoSuchBucket")
    ELSE Ok(SetBucket(be, bucket_name, [be.buckets[bucket_name] EXCEPT !.policy = policy]),
            None)

get_bucket_policy(be, bucket_name) ==
    IF ~HasBucket(be, bucket_name) THEN Fail(be, "NoSuchBucket")
    ELSE Ok(be, be.buckets[bucket_name].policy)

delete_bucket_policy(be, bucket_name, body) == set_bucket_policy(be, bucket_name, None)

\* stores the key object under its name in the bucket
StoreKey(be, bucket_name, key) ==
    SetBucket(be, bucket_name,
              [be.buckets[bucket_name] EXCEPT !.keys = Put(@, key.name, key)])

set_key(be, bucket_name, key_name, value, storage) ==
    IF ~HasBucket(be, bucket_name) THEN Fail(be, "NoSuchBucket")
    ELSE With(FakeKey(key_name, value, storage), LAMBDA new_key :
         Ok(StoreKey(be, bucket_name, new_key), new_key))

\* ret [found |-> FALSE] is the not-found sentinel (None)
get_key(be, bucket_name, key_name) ==
    IF ~HasBucket(be, bucket_name) THEN Fail(be, "NoSuchBucket")
    ELSE IF key_name \in DOMAIN be.buckets[bucket_name].keys
    THEN Ok(be, [found |-> TRUE, key |-> be.buckets[bucket_name].keys[key_name]])
    ELSE Ok(be, [found |-> FALSE])

delete_key(be, bucket_name, key_name) ==
    IF ~HasBucket(be, bucket_name) THEN Fail(be, "NoSuchBucket")
    ELSE IF key_name \notin DOMAIN be.buckets[bucket_name].keys
    THEN Fail(be, "KeyError")
    ELSE Ok(SetBucket(be, bucket_name,
                      [be.buckets[bucket_name] EXCEPT !.keys = Remove(@, key_name)]),
            None)

copy_key(be, src_bucket_name, src_key_name, dest_bucket_name, dest_key_name, storage, acl) ==
    With(get_key(be, src_bucket_name, src_key_name), LAMBDA src :
    IF src.exc # "" THEN Fail(be, src.exc)
    ELSE IF ~HasBucket(be, dest_bucket_name) THEN Fail(be, "NoSuchBucket")
    ELSE IF ~src.ret.found THEN Fail(be, "AttributeError")
    ELSE Ok(StoreKey(be, dest_bucket_name,
                     [src.ret.key EXCEPT !.name = dest_key_name,
                                         !.storage_class = storage,
                                         !.acl = IF acl = None THEN @ ELSE acl]),
            None))

-----------------------------------------------------------------------------
(* Multipart engine of the store *)

Multiparts(be, bucket_name) == be.buckets[bucket_name].multiparts

HasUpload(be, bucket_name, upload_id) ==
    HasBucket(be, bucket_name) /\ upload_id \in DOMAIN Multiparts(be, bucket_name)

SetUpload(be, bucket_name, upload) ==
    SetBucket(be, bucket_name,
              [be.buckets[bucket_name] EXCEPT !.multiparts = Put(@, upload.id, upload)])

DropUpload(be, bucket_name, upload_id) ==
    SetBucket(be, bucket_name,
              [be.buckets[bucket_name] EXCEPT !.multiparts = Remove(@, upload_id)])

\* a fresh unique id: the next one never handed out before
initiate_multipart(be, bucket_name, key_name, metadata) ==
    IF ~HasBucket(be, bucket_name) THEN Fail(be, "NoSuchBucket")
    ELSE With(FakeMultipart(key_name, metadata, be.issued + 1), LAMBDA new :
         Ok(SetUpload([be EXCEPT !.issued = @ + 1], bucket_name, new), new))

set_part(be, bucket_name, upload_id, part_number, value) ==
    IF ~HasBucket(be, bucket_name) THEN Fail(be, "NoSuchBucket")
    ELSE IF ~HasUpload(be, bucket_name, upload_id) THEN Fail(be, "NoSuchUpload")
    ELSE IF part_number < 1 THEN Fail(be, "InvalidPart")
    ELSE Ok(SetUpload(be, bucket_name,
                      [Multiparts(be, bucket_name)[upload_id]
                          EXCEPT !.parts = Put(@, part_number, value)]),
            FakeKey(part_number, value, "STANDARD"))

copy_part(be, bucket_name, upload_id, part_number, src_bucket_name, src_key_name) ==
    With(get_key(be, src_bucket_name, src_key_name), LAMBDA src :
    IF src.exc # "" THEN Fail(be, src.exc)
    ELSE IF ~src.ret.found THEN Fail(be, "AttributeError")
    ELSE set_part(be, bucket_name, upload_id, part_number, src.ret.key.value))

cancel_multipart(be, bucket_name, upload_id) ==
    IF ~HasBucket(be, bucket_name) THEN Fail(be, "NoSuchBucket")
    ELSE IF ~HasUpload(be, bucket_name, upload_id) THEN Fail(be, "NoSuchUpload")
    ELSE Ok(DropUpload(be, bucket_name, upload_id), None)

\* the stored part numbers in ascending order
RECURSIVE Ascending(_)
Ascending(S) ==
    IF S = {} THEN <<>>
    ELSE LET m == CHOOSE x \in S : \A y \in S : x <= y
         IN  <<m>> \o Ascending(S \ {m})

list_multipart(be, bucket_name, upload_id) ==
    IF ~HasBucket(be, bucket_name) THEN Fail(be, "NoSuchBucket")
    ELSE IF ~HasUpload(be, bucket_name, upload_id) THEN Fail(be, "NoSuchUpload")
    ELSE With(Multiparts(be, bucket_name)[upload_id].parts, LAMBDA parts :
         With(Ascending(DOMAIN parts), LAMBDA numbers :
         Ok(be, [i \in 1..Len(numbers) |->
                    [name |-> numbers[i], value |-> parts[numbers[i]]]])))

get_all_multiparts(be, bucket_name) ==
    IF ~HasBucket(be, bucket_name) THEN Fail(be, "NoSuchBucket")
    ELSE Ok(be, Multiparts(be, bucket_name))

\* the referenced parts joined in ascending part-number order
RECURSIVE Concatenate(_, _)
Concatenate(parts, numbers) ==
    IF numbers = <<>> THEN <<>>
    ELSE parts[Head(numbers)] \o Concatenate(parts, Tail(numbers))

\* body is what _complete_multipart_body produces: the (partNumber, ETag)
\* pairs it yields, and the error that ends the iteration ("" for none).
\* The engine takes the pairs one by one, so a pair naming a part that was
\* never stored fails before a later error of the iteration is reached.
complete_multipart(be, bucket_name, upload_id, body) ==
    IF ~HasBucket(be, bucket_name) THEN Fail(be, "NoSuchBucket")
    ELSE IF ~HasUpload(be, bucket_name, upload_id) THEN Fail(be, "NoSuchUpload")
    ELSE
    With(Multiparts(be, bucket_name)[upload_id], LAMBDA multipart :
    With({body.yielded[i][1] : i \in 1..Len(body.yielded)}, LAMBDA referenced :
    IF ~(referenced \subseteq DOMAIN multipart.parts) THEN Fail(be, "InvalidPart")
    ELSE IF body.raised # "" THEN Fail(be, body.raised)
    ELSE
    With([FakeKey(multipart.key_name,
                  Concatenate(multipart.parts, Ascending(referenced)), "STANDARD")
             EXCEPT !.metadata = multipart.metadata],
         LAMBDA key :
    Ok(StoreKey(DropUpload(be, bucket_name, upload_id), bucket_name, key), key))))

append_to_key(be, bucket_name, key_name, value) ==
    With(get_key(be, bucket_name, key_name), LAMBDA k :
    IF k.exc # "" THEN Fail(be, k.exc)
    ELSE IF ~k.ret.found THEN Fail(be, "AttributeError")
    ELSE With([k.ret.key EXCEPT !.value = @ \o value], LAMBDA new_key :
         Ok(StoreKey(be, bucket_name, new_key), new_key)))

-----------------------------------------------------------------------------
(* The dispatcher (ResponseObject).  A request is                          *)
(*   [method, full_url, path, headers, body, form, streaming]              *)
(* with full_url = [bucket, region, path, query]: the bucket the url       *)
(* names ("" for none), the text REGION_URL_REGEX captures ("" when the    *)
(* url does not match), the path and the parsed query string.  A handler   *)
(* returns [backend, response].                                            *)

\* streaming is TRUE when the handler has executed request.streaming = True
Result(be, resp) == [backend |-> be, response |-> resp, streaming |-> FALSE]

\* a handler that returns a bare string
Str(body) == [raised |-> "None", msg |-> "str", status |-> 0,
              headers |-> EmptyDict, body |-> body]

IsString(resp) == resp.raised = "None" /\ resp.msg = "str"

\* an error of the store leaving the handler
Raised(be, exc) ==
    Result(be, IF exc \in S3ClientError THEN Raise("S3ClientError", exc)
               ELSE Raise(exc, ""))

\* s3error.code and s3error.description
S3Status(code) == CASE code = "NoSuchBucket" -> 404
                    [] code = "NoSuchUpload" -> 404
                    [] code = "BucketAlreadyExists" -> 409
                    [] OTHER -> 400

S3Description(code) == render("ERROR", [Code |-> code])

etag(value) == [md5 |-> value]

response_dict(key) == "etag" :> etag(key.value)

metadata_from_headers(headers) ==
    LET meta == {i \in 1..Len(headers) : headers[i][1][1] = "x-amz-meta-"} IN
    [n \in {headers[i][1][2] : i \in meta} |->
        headers[CHOOSE i \in meta : headers[i][1][2] = n][2]]

bucket_name_from_url(full_url) == full_url.bucket

\* pth.lstrip("/")
RECURSIVE parse_key_name(_)
parse_key_name(pth) ==
    IF pth # <<>> /\ pth[1] = "/" THEN parse_key_name(Tail(pth)) ELSE pth

is_delete_keys(path, bucket_name) == path = "/?delete"

NotImplementedMethod == "Method has not been implemented in the S3 backend yet"

NotImplementedPost ==
    "Method POST had only been implemented for multipart uploads and restore operations, so far"

-----------------------------------------------------------------------------
(* Bucket requests.  The subresources lifecycle, website and versions are   *)
(* not part of this model: no request of the model carries their markers.  *)

Letters == {"A", "B", "C", "D", "E", "F", "G", "H", "I", "J", "K", "L", "M",
            "N", "O", "P", "Q", "R", "S", "T", "U", "V", "W", "X", "Y", "Z",
            "a", "b", "c", "d", "e", "f", "g", "h", "i", "j", "k", "l", "m",
            "n", "o", "p", "q", "r", "s", "t", "u", "v", "w", "x", "y", "z"}

\* re.search('<Status>([A-Za-z]+)</Status>', body) over a body whose tags
\* are one character each: the leftmost <Status> that is followed by one or
\* more letters and then </Status>; ok = FALSE is no match (None)
re_search_status(body) ==
    LET after(i) == CHOOSE j \in (i + 1)..(Len(body) + 1) :
                        /\ j = Len(body) + 1 \/ body[j] \notin Letters
                        /\ \A m \in (i + 1)..(j - 1) : body[m] \in Letters
        hits == {i \in 1..Len(body) :
                    /\ body[i] = "<Status>"
                    /\ after(i) > i + 1
                    /\ after(i) <= Len(body)
                    /\ body[after(i)] = "</Status>"}
    IN  IF hits = {} THEN [ok |-> FALSE, group |-> <<>>]
        ELSE LET i == CHOOSE h \in hits : \A g \in hits : h <= g
             IN  [ok |-> TRUE, group |-> SubSeq(body, i + 1, after(i) - 1)]

startswith(s, prefix) == Len(prefix) <= Len(s) /\ SubSeq(s, 1, Len(prefix)) = prefix

\* Listing engine: the direct result keys and the common prefixes.
\* prefix and delimiter are <<>> when absent (None).
prefix_query(bucket, prefix, delimiter) ==
    LET names == {n \in DOMAIN bucket.keys : startswith(n, prefix)}
        rest(n) == SubSeq(n, Len(prefix) + 1, Len(n))
        found(n) == delimiter # <<>> /\ \E i \in 1..Len(rest(n)) : rest(n)[i] = delimiter[1]
        first(n) == CHOOSE i \in 1..Len(rest(n)) :
                        rest(n)[i] = delimiter[1] /\ \A j \in 1..(i - 1) : rest(n)[j] # delimiter[1]
    IN  [keys |-> {n \in names : ~found(n)},
         folders |-> {prefix \o SubSeq(rest(n), 1, first(n)) : n \in {m \in names : found(m)}}]

all_buckets(be) == Str(render("S3_ALL_BUCKETS", [buckets |-> DOMAIN be.buckets]))

_bucket_response_head(be, bucket_name, headers) ==
    With(get_bucket(be, bucket_name), LAMBDA b :
    IF b.exc # "" THEN Raised(be, b.exc)
    ELSE Result(be, Response(200, headers, Bytes(<<>>))))

_bucket_response_get(be, bucket_name, querystring, headers) ==
    IF "uploads" \in DOMAIN querystring THEN
        IF "delimiter" \in DOMAIN querystring \/ "max-uploads" \in DOMAIN querystring
        THEN Result(be, Raise("NotImplementedError",
                             "Listing multipart uploads with this parameter has not been implemented yet"))
        ELSE
        With(get_all_multiparts(be, bucket_name), LAMBDA m :
        IF m.exc # "" THEN Raised(be, m.exc)
        ELSE
        LET multiparts == {m.ret[id] : id \in DOMAIN m.ret}
            uploads == IF "prefix" \in DOMAIN querystring
                       THEN {u \in multiparts : startswith(u.key_name, querystring["prefix"])}
                       ELSE multiparts
        IN  Result(be, Str(render("S3_ALL_MULTIPARTS",
                                  [bucket_name |-> bucket_name,
                                   uploads |-> {[key_name |-> u.key_name, id |-> u.id] : u \in uploads}]))))
    ELSE
    With(get_bucket(be, bucket_name), LAMBDA b :
    IF b.exc # "" THEN Raised(be, b.exc)
    ELSE IF "location" \in DOMAIN querystring
    THEN Result(be, Str(render("S3_BUCKET_LOCATION", [location |-> b.ret.location])))
    ELSE IF "versioning" \in DOMAIN querystring
    THEN With(get_bucket_versioning(be, bucket_name).ret, LAMBDA versioning :
         Result(be, Str(render("S3_BUCKET_GET_VERSIONING", [status |-> versioning]))))
    ELSE IF "policy" \in DOMAIN querystring
    THEN With(get_bucket_policy(be, bucket_name).ret, LAMBDA policy :
         IF policy = None \/ policy = Bytes(<<>>)
         THEN Result(be, Response(404, headers,
                                  render("S3_NO_POLICY", [bucket_name |-> bucket_name])))
         ELSE Result(be, Response(200, headers, policy)))
    ELSE IF "acl" \in DOMAIN querystring
    THEN Result(be, Str(render("S3_OBJECT_ACL_RESPONSE",
                               [grants |-> IF b.ret.acl = None THEN <<>> ELSE b.ret.acl.grants])))
    ELSE
    LET prefix    == IF "prefix" \in DOMAIN querystring THEN querystring["prefix"] ELSE <<>>
        delimiter == IF "delimiter" \in DOMAIN querystring THEN querystring["delimiter"] ELSE <<>>
    IN
    With(prefix_query(b.ret, prefix, delimiter), LAMBDA result :
    Result(be, Response(200, headers,
                        render("S3_BUCKET_GET_RESPONSE",
                               [bucket |-> bucket_name, prefix |-> prefix,
                                delimiter |-> delimiter,
                                result_keys |-> result.keys,
                                result_folders |-> result.folders])))))

\* the handler of BucketAlreadyExists in the default region and the return
\* after it: the bucket is looked up again, in the store as it is by then
ReuseBucket(be, bucket_name, headers) ==
    With(get_bucket(be, bucket_name), LAMBDA g :
    IF g.exc # "" THEN Raised(be, g.exc)
    ELSE Result(be, Response(200, headers,
                             render("S3_BUCKET_CREATE_RESPONSE", [bucket |-> g.ret.name]))))

\* mutant: an existing bucket is reused whatever region the request names
_bucket_response_put_any_region(be, req, body, region_name, bucket_name, querystring, headers) ==
    IF "versioning" \in DOMAIN querystring THEN
        With(re_search_status(body.bytes), LAMBDA ver :
        IF ver.ok THEN
            With(set_bucket_versioning(be, bucket_name, ver.group), LAMBDA r :
            IF r.exc # "" THEN Raised(be, r.exc)
            ELSE Result(r.backend,
                        Str(render("S3_BUCKET_VERSIONING",
                                   [bucket_versioning_status |-> ver.group]))))
        ELSE Result(be, Response(404, headers, Bytes(<<>>))))
    ELSE IF "policy" \in DOMAIN querystring THEN
        With(set_bucket_policy(be, bucket_name, body), LAMBDA r :
        IF r.exc # "" THEN Raised(be, r.exc)
        ELSE Result(r.backend, Str(Bytes(<<"True">>))))
    ELSE IF "acl" \in DOMAIN querystring THEN
        With(_acl_from_headers(req.headers), LAMBDA acl :
        IF acl.raised # "None" THEN Result(be, Raise(acl.raised, "grant"))
        ELSE
        With(set_bucket_acl(be, bucket_name, acl.ret), LAMBDA r :
        IF r.exc # "" THEN Raised(be, r.exc)
        ELSE Result(r.backend, Str(Bytes(<<>>)))))
    ELSE
    With(create_bucket(be, bucket_name, region_name), LAMBDA c :
    IF c.exc = "BucketAlreadyExists" THEN
        ReuseBucket(be, bucket_name, headers)
    ELSE IF c.exc # "" THEN Raised(be, c.exc)
    ELSE Result(c.backend, Response(200, headers,
                                    render("S3_BUCKET_CREATE_RESPONSE", [bucket |-> c.ret.name]))))

_bucket_response_put(be, req, body, region_name, bucket_name, querystring, headers) ==
    IF "versioning" \in DOMAIN querystring THEN
        With(re_search_status(body.bytes), LAMBDA ver :
        IF ver.ok THEN
            With(set_bucket_versioning(be, bucket_name, ver.group), LAMBDA r :
            IF r.exc # "" THEN Raised(be, r.exc)
            ELSE Result(r.backend,
                        Str(render("S3_BUCKET_VERSIONING",
                                   [bucket_versioning_status |-> ver.group]))))
        ELSE Result(be, Response(404, headers, Bytes(<<>>))))
    ELSE IF "policy" \in DOMAIN querystring THEN
        With(set_bucket_policy(be, bucket_name, body), LAMBDA r :
        IF r.exc # "" THEN Raised(be, r.exc)
        ELSE Result(r.backend, Str(Bytes(<<"True">>))))
    ELSE IF "acl" \in DOMAIN querystring THEN
        With(_acl_from_headers(req.headers), LAMBDA acl :
        IF acl.raised # "None" THEN Result(be, Raise(acl.raised, "grant"))
        ELSE
        With(set_bucket_acl(be, bucket_name, acl.ret), LAMBDA r :
        IF r.exc # "" THEN Raised(be, r.exc)
        ELSE Result(r.backend, Str(Bytes(<<>>)))))
    ELSE
    With(create_bucket(be, bucket_name, region_name), LAMBDA c :
    IF c.exc = "BucketAlreadyExists" THEN
        IF region_name = DEFAULT_REGION_NAME
        THEN ReuseBucket(be, bucket_name, headers)
        ELSE Raised(be, c.exc)
    ELSE IF c.exc # "" THEN Raised(be, c.exc)
    ELSE Result(c.backend, Response(200, headers,
                                    render("S3_BUCKET_CREATE_RESPONSE", [bucket |-> c.ret.name]))))

\* mutant: the flag delete_bucket returns is not looked at
_bucket_response_delete_flag_ignored(be, body, bucket_name, querystring, headers) ==
    IF "policy" \in DOMAIN querystring THEN
        With(delete_bucket_policy(be, bucket_name, body), LAMBDA r :
        IF r.exc # "" THEN Raised(be, r.exc)
        ELSE Result(r.backend, Response(204, headers, Bytes(<<>>))))
    ELSE
    With(delete_bucket(be, bucket_name), LAMBDA d :
    IF d.exc # "" THEN Raised(be, d.exc)
    ELSE Result(d.backend, Response(204, headers, render("S3_DELETE_BUCKET_SUCCESS", None))))

_bucket_response_delete(be, body, bucket_name, querystring, headers) ==
    IF "policy" \in DOMAIN querystring THEN
        With(delete_bucket_policy(be, bucket_name, body), LAMBDA r :
        IF r.exc # "" THEN Raised(be, r.exc)
        ELSE Result(r.backend, Response(204, headers, Bytes(<<>>))))
    ELSE
    With(delete_bucket(be, bucket_name), LAMBDA d :
    IF d.exc # "" THEN Raised(be, d.exc)
    ELSE IF d.ret.removed
    THEN Result(d.backend, Response(204, headers, render("S3_DELETE_BUCKET_SUCCESS", None)))
    ELSE Result(d.backend, Response(409, headers,
                                    render("S3_DELETE_BUCKET_WITH_ITEMS_ERROR", None))))

\* the loop of _bucket_response_delete_keys leaving at the first missing key
DeleteKeys_stop_at_missing(be, bucket_name, keys) ==
    IF keys = <<>> THEN [backend |-> be, exc |-> "", deleted |-> <<>>, errors |-> <<>>]
    ELSE
    With(delete_key(be, bucket_name, Head(keys)), LAMBDA d :
    IF d.exc \notin {"", "KeyError"}
    THEN [backend |-> be, exc |-> d.exc, deleted |-> <<>>, errors |-> <<>>]
    ELSE IF d.exc = "KeyError"
    THEN [backend |-> d.backend, exc |-> "", deleted |-> <<>>, errors |-> <<Head(keys)>>]
    ELSE [backend |-> d.backend, exc |-> "", deleted |-> <<Head(keys)>>, errors |-> <<>>])

\* the loop of _bucket_response_delete_keys over the <Key> elements
RECURSIVE DeleteKeys(_, _, _)
DeleteKeys(be, bucket_name, keys) ==
    IF keys = <<>> THEN [backend |-> be, exc |-> "", deleted |-> <<>>, errors |-> <<>>]
    ELSE
    With(delete_key(be, bucket_name, Head(keys)), LAMBDA d :
    IF d.exc \notin {"", "KeyError"}
    THEN [backend |-> be, exc |-> d.exc, deleted |-> <<>>, errors |-> <<>>]
    ELSE
    With(DeleteKeys(d.backend, bucket_name, Tail(keys)), LAMBDA rest :
    IF d.exc = "KeyError"
    THEN [rest EXCEPT !.errors = <<Head(keys)>> \o @]
    ELSE [rest EXCEPT !.deleted = <<Head(keys)>> \o @]))

_bucket_response_delete_keys(be, req, bucket_name, headers) ==
    With(DeleteKeys(be, bucket_name, req.body.Key), LAMBDA r :
    IF r.exc # "" THEN Raised(r.backend, r.exc)
    ELSE Result(r.backend,
                Response(200, headers,
                         render("S3_DELETE_KEYS_RESPONSE",
                                [deleted |-> r.deleted, delete_errors |-> r.errors]))))

_bucket_response_post(be, req, bucket_name, headers) ==
    IF is_delete_keys(req.path, bucket_name)
    THEN _bucket_response_delete_keys(be, req, bucket_name, headers)
    ELSE
    \* the form of the model has the fields key and file only: no metadata
    With(set_key(be, bucket_name, req.form.key, req.form.file, "STANDARD"), LAMBDA k :
    IF k.exc # "" THEN Raised(be, k.exc)
    ELSE Result(k.backend, Response(200, headers, Bytes(<<>>))))

_bucket_response(be, req, full_url, headers) ==
    LET querystring == full_url.query
        method      == req.method
        region_name == IF full_url.region # "" THEN full_url.region
                       ELSE DEFAULT_REGION_NAME
        bucket_name == bucket_name_from_url(full_url)
        body        == req.body
    IN
    IF bucket_name = "" THEN Result(be, all_buckets(be))
    ELSE CASE method = "HEAD" -> _bucket_response_head(be, bucket_name, headers)
           [] method = "GET" -> _bucket_response_get(be, bucket_name, querystring, headers)
           [] method = "PUT" ->
                _bucket_response_put(be, req, body, region_name, bucket_name, querystring, headers)
           [] method = "DELETE" ->
                _bucket_response_delete(be, body, bucket_name, querystring, headers)
           [] method = "POST" -> _bucket_response_post(be, req, bucket_name, headers)
           [] OTHER -> Result(be, Raise("NotImplementedError", NotImplementedMethod))

\* what bucket_response makes of the outcome r of _bucket_response: an
\* S3ClientError becomes (code, headers, description), a bare string becomes
\* (200, headers, string), any other exception escapes
BucketResponseOf(r, headers) ==
    LET resp == IF r.response.raised = "S3ClientError"
                THEN Response(S3Status(r.response.msg), headers,
                              S3Description(r.response.msg))
                ELSE r.response
    IN
    IF resp.raised # "None" THEN [r EXCEPT !.response = resp]
    ELSE IF IsString(resp) THEN [r EXCEPT !.response = Response(200, headers, resp.body)]
    ELSE [r EXCEPT !.response = resp]

bucket_response(be, req, full_url, headers) ==
    BucketResponseOf(_bucket_response(be, req, full_url, headers), headers)

-----------------------------------------------------------------------------
(* Key requests *)

set_acl(key, acl) == [key EXCEPT !.acl = acl]

set_metadata(key, metadata, replace) ==
    [key EXCEPT !.metadata = IF replace THEN metadata ELSE Update(@, metadata)]

restore(key, days) == [key EXCEPT !.expiry_date = <<days>>]

\* src.split("/", 1) of an x-amz-copy-source value: the bucket name, one
\* character of the value, and the key name after the first "/"
CopySource(src) ==
    LET slashes == {i \in 1..Len(src) : src[i] = "/"} IN
    IF slashes = {} THEN [ok |-> FALSE, bucket |-> "", key |-> <<>>]
    ELSE LET p == CHOOSE i \in slashes : \A j \in slashes : i <= j IN
         [ok |-> TRUE,
          bucket |-> IF p = 2 THEN src[1] ELSE "",
          key |-> SubSeq(src, p + 1, Len(src))]

_key_response_get(be, bucket_name, query, key_name, headers) ==
    IF "uploadId" \in DOMAIN query THEN
        LET upload_id == query["uploadId"] IN
        With(list_multipart(be, bucket_name, upload_id), LAMBDA parts :
        IF parts.exc # "" THEN Raised(be, parts.exc)
        ELSE Result(be, Response(200, headers,
                                 render("S3_MULTIPART_LIST_RESPONSE",
                                        [bucket_name |-> bucket_name, key_name |-> key_name,
                                         upload_id |-> upload_id, count |-> Len(parts.ret),
                                         parts |-> parts.ret]))))
    ELSE
    With(get_key(be, bucket_name, key_name), LAMBDA key :
    IF key.exc # "" THEN Raised(be, key.exc)
    ELSE IF "acl" \in DOMAIN query THEN
        IF ~key.ret.found THEN Result(be, Raise("UndefinedError", ""))
        ELSE Result(be, Response(200, headers,
                                 render("S3_OBJECT_ACL_RESPONSE",
                                        [grants |-> IF key.ret.key.acl = None THEN <<>>
                                                    ELSE key.ret.key.acl.grants])))
    ELSE IF key.ret.found
    THEN Result(be, Response(200, Update(headers, key.ret.key.metadata),
                             Bytes(key.ret.key.value)))
    ELSE Result(be, Response(404, headers, Bytes(<<>>))))

\* _key_response_put storing every chunk of a streaming request with set_key
_key_response_put_chunk_replaces(be, req, body, bucket_name, query, key_name, headers) ==
    IF "uploadId" \in DOMAIN query /\ "partNumber" \in DOMAIN query THEN
        LET upload_id == query["uploadId"] IN
        With(int(query["partNumber"]), LAMBDA part_number :
        IF ~part_number.ok THEN Result(be, Raise("ValueError", "int"))
        ELSE IF HasHeader(req.headers, X_AMZ_COPY_SOURCE) THEN
            With(CopySource(GetHeader(req.headers, X_AMZ_COPY_SOURCE, <<>>)), LAMBDA src :
            IF ~src.ok THEN Result(be, Raise("ValueError", "unpack"))
            ELSE
            With(copy_part(be, bucket_name, upload_id, part_number.val, src.bucket, src.key),
                 LAMBDA key :
            IF key.exc # "" THEN Raised(be, key.exc)
            ELSE Result(key.backend,
                        Response(200, Update(headers, response_dict(key.ret)),
                                 render("S3_MULTIPART_UPLOAD_RESPONSE",
                                        [etag |-> etag(key.ret.value)])))))
        ELSE
            With(set_part(be, bucket_name, upload_id, part_number.val, body.bytes),
                 LAMBDA key :
            IF key.exc # "" THEN Raised(be, key.exc)
            ELSE Result(key.backend,
                        Response(200, Update(headers, response_dict(key.ret)), Bytes(<<>>)))))
    ELSE
    With(GetHeader(req.headers, <<"x-amz-", "storage-class">>, "STANDARD"), LAMBDA storage_class :
    With(_acl_from_headers(req.headers), LAMBDA acl :
    IF acl.raised # "None" THEN Result(be, Raise(acl.raised, "grant"))
    ELSE IF "acl" \in DOMAIN query THEN
        With(get_key(be, bucket_name, key_name), LAMBDA key :
        IF key.exc # "" THEN Raised(be, key.exc)
        ELSE IF ~key.ret.found THEN Result(be, Raise("AttributeError", "NoneType"))
        ELSE Result(StoreKey(be, bucket_name, set_acl(key.ret.key, acl.ret)),
                    Response(200, headers, Bytes(<<>>))))
    ELSE IF HasHeader(req.headers, X_AMZ_COPY_SOURCE) THEN
        With(CopySource(GetHeader(req.headers, X_AMZ_COPY_SOURCE, <<>>)), LAMBDA src :
        IF ~src.ok THEN Result(be, Raise("ValueError", "unpack"))
        ELSE
        With(copy_key(be, src.bucket, src.key, bucket_name, key_name, storage_class, acl.ret),
             LAMBDA c :
        IF c.exc # "" THEN Raised(be, c.exc)
        ELSE
        With(get_key(c.backend, bucket_name, key_name).ret.key, LAMBDA new_key :
        Result(IF GetHeader(req.headers, <<"x-amz-", "metadata-directive">>, "") = "REPLACE"
               THEN StoreKey(c.backend, bucket_name,
                             set_metadata(new_key, metadata_from_headers(req.headers), TRUE))
               ELSE c.backend,
               Str(render("S3_OBJECT_COPY_RESPONSE", [key |-> src.key]))))))
    ELSE
    LET streaming_request  == req.streaming
        closing_connection == "connection" \in DOMAIN headers /\ headers["connection"] = "close"
    IN
    IF closing_connection /\ streaming_request THEN
        With(get_key(be, bucket_name, key_name), LAMBDA k :
        IF k.exc # "" THEN Raised(be, k.exc)
        ELSE IF ~k.ret.found THEN Result(be, Raise("AttributeError", "NoneType"))
        ELSE Result(be, Response(200, Update(headers, response_dict(k.ret.key)),
                                 render("S3_OBJECT_RESPONSE", [etag |-> etag(k.ret.key.value)]))))
    ELSE IF streaming_request THEN
        With(set_key(be, bucket_name, key_name, body.bytes, storage_class), LAMBDA k :
        IF k.exc # "" THEN Raised(be, k.exc)
        ELSE Result(k.backend, Response(200, Update(headers, response_dict(k.ret)),
                                        render("S3_OBJECT_RESPONSE", [etag |-> etag(k.ret.value)]))))
    ELSE
        With(set_key(be, bucket_name, key_name, body.bytes, storage_class), LAMBDA k :
        IF k.exc # "" THEN Raised(be, k.exc)
        ELSE
        With(set_acl(set_metadata(k.ret, metadata_from_headers(req.headers), FALSE), acl.ret),
             LAMBDA new_key :
        [Result(StoreKey(k.backend, bucket_name, new_key),
                Response(200, Update(headers, response_dict(new_key)),
                         render("S3_OBJECT_RESPONSE", [etag |-> etag(new_key.value)])))
            EXCEPT !.streaming = TRUE]))))

_key_response_put(be, req, body, bucket_name, query, key_name, headers) ==
    IF "uploadId" \in DOMAIN query /\ "partNumber" \in DOMAIN query THEN
        LET upload_id == query["uploadId"] IN
        With(int(query["partNumber"]), LAMBDA part_number :
        IF ~part_number.ok THEN Result(be, Raise("ValueError", "int"))
        ELSE IF HasHeader(req.headers, X_AMZ_COPY_SOURCE) THEN
            With(CopySource(GetHeader(req.headers, X_AMZ_COPY_SOURCE, <<>>)), LAMBDA src :
            IF ~src.ok THEN Result(be, Raise("ValueError", "unpack"))
            ELSE
            With(copy_part(be, bucket_name, upload_id, part_number.val, src.bucket, src.key),
                 LAMBDA key :
            IF key.exc # "" THEN Raised(be, key.exc)
            ELSE Result(key.backend,
                        Response(200, Update(headers, response_dict(key.ret)),
                                 render("S3_MULTIPART_UPLOAD_RESPONSE",
                                        [etag |-> etag(key.ret.value)])))))
        ELSE
            With(set_part(be, bucket_name, upload_id, part_number.val, body.bytes),
                 LAMBDA key :
            IF key.exc # "" THEN Raised(be, key.exc)
            ELSE Result(key.backend,
                        Response(200, Update(headers, response_dict(key.ret)), Bytes(<<>>)))))
    ELSE
    With(GetHeader(req.headers, <<"x-amz-", "storage-class">>, "STANDARD"), LAMBDA storage_class :
    With(_acl_from_headers(req.headers), LAMBDA acl :
    IF acl.raised # "None" THEN Result(be, Raise(acl.raised, "grant"))
    ELSE IF "acl" \in DOMAIN query THEN
        With(get_key(be, bucket_name, key_name), LAMBDA key :
        IF key.exc # "" THEN Raised(be, key.exc)
        ELSE IF ~key.ret.found THEN Result(be, Raise("AttributeError", "NoneType"))
        ELSE Result(StoreKey(be, bucket_name, set_acl(key.ret.key, acl.ret)),
                    Response(200, headers, Bytes(<<>>))))
    ELSE IF HasHeader(req.headers, X_AMZ_COPY_SOURCE) THEN
        With(CopySource(GetHeader(req.headers, X_AMZ_COPY_SOURCE, <<>>)), LAMBDA src :
        IF ~src.ok THEN Result(be, Raise("ValueError", "unpack"))
        ELSE
        With(copy_key(be, src.bucket, src.key, bucket_name, key_name, storage_class, acl.ret),
             LAMBDA c :
        IF c.exc # "" THEN Raised(be, c.exc)
        ELSE
        With(get_key(c.backend, bucket_name, key_name).ret.key, LAMBDA new_key :
        Result(IF GetHeader(req.headers, <<"x-amz-", "metadata-directive">>, "") = "REPLACE"
               THEN StoreKey(c.backend, bucket_name,
                             set_metadata(new_key, metadata_from_headers(req.headers), TRUE))
               ELSE c.backend,
               Str(render("S3_OBJECT_COPY_RESPONSE", [key |-> src.key]))))))
    ELSE
    LET streaming_request  == req.streaming
        closing_connection == "connection" \in DOMAIN headers /\ headers["connection"] = "close"
    IN
    IF closing_connection /\ streaming_request THEN
        With(get_key(be, bucket_name, key_name), LAMBDA k :
        IF k.exc # "" THEN Raised(be, k.exc)
        ELSE IF ~k.ret.found THEN Result(be, Raise("AttributeError", "NoneType"))
        ELSE Result(be, Response(200, Update(headers, response_dict(k.ret.key)),
                                 render("S3_OBJECT_RESPONSE", [etag |-> etag(k.ret.key.value)]))))
    ELSE IF streaming_request THEN
        With(append_to_key(be, bucket_name, key_name, body.bytes), LAMBDA k :
        IF k.exc # "" THEN Raised(be, k.exc)
        ELSE Result(k.backend, Response(200, Update(headers, response_dict(k.ret)),
                                        render("S3_OBJECT_RESPONSE", [etag |-> etag(k.ret.value)]))))
    ELSE
        With(set_key(be, bucket_name, key_name, body.bytes, storage_class), LAMBDA k :
        IF k.exc # "" THEN Raised(be, k.exc)
        ELSE
        With(set_acl(set_metadata(k.ret, metadata_from_headers(req.headers), FALSE), acl.ret),
             LAMBDA new_key :
        [Result(StoreKey(k.backend, bucket_name, new_key),
                Response(200, Update(headers, response_dict(new_key)),
                         render("S3_OBJECT_RESPONSE", [etag |-> etag(new_key.value)])))
            EXCEPT !.streaming = TRUE]))))

_key_response_head(be, bucket_name, key_name, headers) ==
    With(get_key(be, bucket_name, key_name), LAMBDA key :
    IF key.exc # "" THEN Raised(be, key.exc)
    ELSE IF key.ret.found
    THEN Result(be, Response(200,
                             Update(Update(headers, key.ret.key.metadata),
                                    response_dict(key.ret.key)),
                             Bytes(key.ret.key.value)))
    ELSE Result(be, Response(404, headers, Bytes(<<>>))))

\* mutant: the uploadId marker is not looked at, every DELETE removes the key
_key_response_delete_key_only(be, bucket_name, query, key_name, headers) ==
    With(delete_key(be, bucket_name, key_name), LAMBDA d :
    IF d.exc = "KeyError" THEN Result(be, Response(404, headers, Bytes(<<>>)))
    ELSE IF d.exc # "" THEN Raised(be, d.exc)
    ELSE Result(d.backend, Response(204, headers, render("S3_DELETE_OBJECT_SUCCESS", None))))

_key_response_delete(be, bucket_name, query, key_name, headers) ==
    IF "uploadId" \in DOMAIN query THEN
        With(cancel_multipart(be, bucket_name, query["uploadId"]), LAMBDA c :
        IF c.exc # "" THEN Raised(be, c.exc)
        ELSE Result(c.backend, Response(204, headers, Bytes(<<>>))))
    ELSE
    With(delete_key(be, bucket_name, key_name), LAMBDA d :
    IF d.exc = "KeyError" THEN Result(be, Response(404, headers, Bytes(<<>>)))
    ELSE IF d.exc # "" THEN Raised(be, d.exc)
    ELSE Result(d.backend, Response(204, headers, render("S3_DELETE_OBJECT_SUCCESS", None))))

\* mutant: the generator returns after the first pair instead of going on
PartsFrom_first_only(ps, prev) ==
    IF ps = <<>> THEN [yielded |-> <<>>, raised |-> ""]
    ELSE
    With(int(Head(ps).PartNumber), LAMBDA pn :
    IF ~pn.ok THEN [yielded |-> <<>>, raised |-> "ValueError"]
    ELSE IF pn.val <= prev THEN [yielded |-> <<>>, raised |-> "InvalidPartOrder"]
    ELSE [yielded |-> <<<<pn.val, Head(ps).ETag>>>>, raised |-> ""])

\* the generator loop of _complete_multipart_body over the <Part> elements:
\* the pairs it yields and the error that ends it ("" for none)
RECURSIVE PartsFrom(_, _)
PartsFrom(ps, prev) ==
    IF ps = <<>> THEN [yielded |-> <<>>, raised |-> ""]
    ELSE
    With(int(Head(ps).PartNumber), LAMBDA pn :
    IF ~pn.ok THEN [yielded |-> <<>>, raised |-> "ValueError"]
    ELSE IF pn.val <= prev THEN [yielded |-> <<>>, raised |-> "InvalidPartOrder"]
    ELSE With(PartsFrom(Tail(ps), prev), LAMBDA rest :
         [yielded |-> <<<<pn.val, Head(ps).ETag>>>> \o rest.yielded,
          raised |-> rest.raised]))

\* mutant: prev starts at 1, so part number 1 is refused
_complete_multipart_body_prev_1(body) ==
    IF "Part" \notin DOMAIN body THEN [yielded |-> <<>>, raised |-> "ExpatError"]
    ELSE PartsFrom(body.Part, 1)

\* body is the parsed document; bytes that hold no document do not parse
_complete_multipart_body(body) ==
    IF "Part" \notin DOMAIN body THEN [yielded |-> <<>>, raised |-> "ExpatError"]
    ELSE PartsFrom(body.Part, 0)

\* _key_response_post reading expiry_date after key.restore instead of before it
_key_response_post_status_after_restore(be, req, body, bucket_name, query, key_name, headers) ==
    IF body = Bytes(<<>>) /\ "uploads" \in DOMAIN query THEN
        With(initiate_multipart(be, bucket_name, key_name, metadata_from_headers(req.headers)),
             LAMBDA multipart :
        IF multipart.exc # "" THEN Raised(be, multipart.exc)
        ELSE Result(multipart.backend,
                    Response(200, headers,
                             render("S3_MULTIPART_INITIATE_RESPONSE",
                                    [bucket_name |-> bucket_name, key_name |-> key_name,
                                     upload_id |-> multipart.ret.id]))))
    ELSE IF "uploadId" \in DOMAIN query THEN
        With(complete_multipart(be, bucket_name, query["uploadId"],
                                _complete_multipart_body(body)),
             LAMBDA key :
        IF key.exc # "" THEN Raised(be, key.exc)
        ELSE Result(key.backend,
                    Str(render("S3_MULTIPART_COMPLETE_RESPONSE",
                               [bucket_name |-> bucket_name, key_name |-> key.ret.name,
                                etag |-> etag(key.ret.value)]))))
    ELSE IF "restore" \in DOMAIN query THEN
        IF "Days" \notin DOMAIN body THEN Result(be, Raise("ExpatError", ""))
        ELSE
        With(int(body.Days), LAMBDA days :
        With(get_key(be, bucket_name, key_name), LAMBDA key :
        IF key.exc # "" THEN Raised(be, key.exc)
        ELSE IF ~key.ret.found THEN Result(be, Raise("AttributeError", "NoneType"))
        ELSE IF ~days.ok THEN Result(be, Raise("ValueError", "int"))
        ELSE Result(StoreKey(be, bucket_name, restore(key.ret.key, days.val)),
                    Response(IF restore(key.ret.key, days.val).expiry_date # <<>> THEN 200 ELSE 202,
                             headers, Bytes(<<>>)))))
    ELSE Result(be, Raise("NotImplementedError", NotImplementedPost))

_key_response_post(be, req, body, bucket_name, query, key_name, headers) ==
    IF body = Bytes(<<>>) /\ "uploads" \in DOMAIN query THEN
        With(initiate_multipart(be, bucket_name, key_name, metadata_from_headers(req.headers)),
             LAMBDA multipart :
        IF multipart.exc # "" THEN Raised(be, multipart.exc)
        ELSE Result(multipart.backend,
                    Response(200, headers,
                             render("S3_MULTIPART_INITIATE_RESPONSE",
                                    [bucket_name |-> bucket_name, key_name |-> key_name,
                                     upload_id |-> multipart.ret.id]))))
    ELSE IF "uploadId" \in DOMAIN query THEN
        With(complete_multipart(be, bucket_name, query["uploadId"],
                                _complete_multipart_body(body)),
             LAMBDA key :
        IF key.exc # "" THEN Raised(be, key.exc)
        ELSE Result(key.backend,
                    Str(render("S3_MULTIPART_COMPLETE_RESPONSE",
                               [bucket_name |-> bucket_name, key_name |-> key.ret.name,
                                etag |-> etag(key.ret.value)]))))
    ELSE IF "restore" \in DOMAIN query THEN
        IF "Days" \notin DOMAIN body THEN Result(be, Raise("ExpatError", ""))
        ELSE
        With(int(body.Days), LAMBDA days :
        With(get_key(be, bucket_name, key_name), LAMBDA key :
        IF key.exc # "" THEN Raised(be, key.exc)
        ELSE IF ~key.ret.found THEN Result(be, Raise("AttributeError", "NoneType"))
        ELSE IF ~days.ok THEN Result(be, Raise("ValueError", "int"))
        ELSE Result(StoreKey(be, bucket_name, restore(key.ret.key, days.val)),
                    Response(IF key.ret.key.expiry_date # <<>> THEN 200 ELSE 202,
                             headers, Bytes(<<>>)))))
    ELSE Result(be, Raise("NotImplementedError", NotImplementedPost))

_key_response(be, req, full_url, headers) ==
    LET query       == full_url.query
        method      == req.method
        key_name    == parse_key_name(full_url.path)
        bucket_name == bucket_name_from_url(full_url)
        body        == req.body
    IN
    CASE method = "GET" -> _key_response_get(be, bucket_name, query, key_name, headers)
      [] method = "PUT" ->
           _key_response_put(be, req, body, bucket_name, query, key_name, headers)
      [] method = "HEAD" -> _key_response_head(be, bucket_name, key_name, headers)
      [] method = "DELETE" -> _key_response_delete(be, bucket_name, query, key_name, headers)
      [] method = "POST" ->
           _key_response_post(be, req, body, bucket_name, query, key_name, headers)
      [] OTHER -> Result(be, Raise("NotImplementedError", NotImplementedMethod))

\* what key_response makes of the outcome r of _key_response: an
\* S3ClientError becomes (code, headers, description), a bare string becomes
\* (200, headers, string), and a 200 answer to a request with a Range header
\* goes through _handle_range_header; any other exception escapes
KeyResponseOf(r, req, headers) ==
    LET resp == IF r.response.raised = "S3ClientError"
                THEN Response(S3Status(r.response.msg), headers,
                              S3Description(r.response.msg))
                ELSE IF IsString(r.response)
                THEN Response(200, headers, r.response.body)
                ELSE r.response
    IN
    IF resp.raised # "None" THEN [r EXCEPT !.response = resp]
    ELSE IF resp.status = 200 /\ HasHeader(req.headers, RANGE)
    THEN [r EXCEPT !.response = _handle_range_header(req, resp.headers, resp.body)]
    ELSE [r EXCEPT !.response = resp]

key_response(be, req, full_url, headers) ==
    KeyResponseOf(_key_response(be, req, full_url, headers), req, headers)

\* the url routing in front of the dispatcher: a path that names no key is
\* a bucket request, any other a key request; headers are the response
\* headers the transport hands in
DispatchWith(be, req, headers) ==
    IF parse_key_name(req.full_url.path) = <<>>
    THEN bucket_response(be, req, req.full_url, headers)
    ELSE key_response(be, req, req.full_url, headers)

Dispatch(be, req) == DispatchWith(be, req, EmptyDict)

-----------------------------------------------------------------------------
(* Requests of the model *)

\* op names the row of the routing table the request is built for
Request(op, method, bucket, region, path, query, headers, body) ==
    [op |-> op, method |-> method,
     full_url |-> [bucket |-> bucket, region |-> region, path |-> path, query |-> query],
     path |-> "/", headers |-> headers, body |-> body,
     form |-> None, streaming |-> FALSE]

\* a request on the bucket b, sent to the host of the given region ("" is a
\* host that REGION_URL_REGEX does not match)
BucketRequest(op, method, b, region, query, headers) ==
    Request(op, method, b, region, <<"/">>, query, headers, Bytes(<<>>))

\* a request on the key k of the bucket b
KeyRequest(op, method, b, k, query, headers, body) ==
    Request(op, method, b, "", <<"/">> \o k, query, headers, body)

\* a subresource marker of the query string
Marker(name) == name :> ""

BucketNames == {"b1"}

KeyNames == {<<"k">>}

Contents == {<<"a">>, <<"b">>}

UploadIds == 1..MaxUploads

\* the <Part> lists of completion bodies: every sequence of up to
\* MaxBodyLen part numbers 0..MaxPart (0 is never a stored part), each with
\* the ETag the client sends
RECURSIVE PartLists(_)
PartLists(n) ==
    IF n = 0 THEN {<<>>}
    ELSE PartLists(n - 1) \cup
         {Append(ps, [PartNumber |-> str(pn), ETag |-> "etag"]) :
             ps \in {l \in PartLists(n - 1) : Len(l) = n - 1}, pn \in 0..MaxPart}

CompleteRequest(b, k, id, parts) ==
    KeyRequest("CompleteMultipart", "POST", b, k, "uploadId" :> id, <<>>, [Part |-> parts])

-----------------------------------------------------------------------------
(* The state machine: one request at a time is dispatched against the      *)
(* store; request and response record the request handled last and what    *)
(* the transport got back for it.                                          *)

NoRequest == Request("None", "", "", "", <<>>, EmptyDict, <<>>, Bytes(<<>>))

NoResponse == Response(0, EmptyDict, Bytes(<<>>))

EmptyBackend == [buckets |-> EmptyDict, issued |-> 0]

\* the call of the dispatcher for req with the response headers of the
\* transport; the request object keeps the mark the handler left on it
DoWith(req, headers) ==
    \E r \in {DispatchWith(backend, req, headers)} :
        /\ backend' = r.backend
        /\ request' = [req EXCEPT !.streaming = @ \/ r.streaming]
        /\ response' = r.response
        /\ UNCHANGED threads

Do(req) == DoWith(req, EmptyDict)

Init ==
    /\ backend = EmptyBackend
    /\ request = NoRequest
    /\ response = NoResponse
    /\ threads = <<>>

\* threads holds the requests that are in the middle of their handler; the
\* specifications that run one request at a time leave it empty

CreateBucket ==
    /\ \E b \in BucketNames :
          Do(BucketRequest("CreateBucket", "PUT", b, "", EmptyDict, <<>>))

DeleteBucket ==
    /\ \E b \in BucketNames :
          Do(BucketRequest("DeleteBucket", "DELETE", b, "", EmptyDict, <<>>))

PutObject ==
    /\ \E b \in BucketNames, k \in KeyNames, c \in Contents :
          Do(KeyRequest("PutObject", "PUT", b, k, EmptyDict, <<>>, Bytes(c)))

GetObject ==
    /\ \E b \in BucketNames, k \in KeyNames :
          Do(KeyRequest("GetObject", "GET", b, k, EmptyDict, <<>>, Bytes(<<>>)))

DeleteObject ==
    /\ \E b \in BucketNames, k \in KeyNames :
          Do(KeyRequest("DeleteObject", "DELETE", b, k, EmptyDict, <<>>, Bytes(<<>>)))

\* the model stops handing out upload ids after MaxUploads
InitiateMultipart ==
    /\ backend.issued < MaxUploads
    /\ \E b \in BucketNames, k \in KeyNames :
          Do(KeyRequest("InitiateMultipart", "POST", b, k, Marker("uploads"), <<>>,
                        Bytes(<<>>)))

UploadPart ==
    /\ \E b \in BucketNames, k \in KeyNames, id \in UploadIds,
          pn \in 1..MaxPart, c \in Contents :
          Do(KeyRequest("UploadPart", "PUT", b, k,
                        ("uploadId" :> id) @@ ("partNumber" :> str(pn)), <<>>, Bytes(c)))

ListParts ==
    /\ \E b \in BucketNames, k \in KeyNames, id \in UploadIds :
          Do(KeyRequest("ListParts", "GET", b, k, "uploadId" :> id, <<>>, Bytes(<<>>)))

ListUploads ==
    /\ \E b \in BucketNames :
          Do(BucketRequest("ListUploads", "GET", b, "", Marker("uploads"), <<>>))

CompleteMultipart ==
    /\ \E b \in BucketNames, k \in KeyNames, id \in UploadIds,
          parts \in PartLists(MaxBodyLen) :
          Do(CompleteRequest(b, k, id, parts))

CancelMultipart ==
    /\ \E b \in BucketNames, k \in KeyNames, id \in UploadIds :
          Do(KeyRequest("CancelMultipart", "DELETE", b, k, "uploadId" :> id, <<>>,
                        Bytes(<<>>)))

Next ==
    \/ CreateBucket
    \/ DeleteBucket
    \/ PutObject
    \/ GetObject
    \/ DeleteObject
    \/ InitiateMultipart
    \/ UploadPart
    \/ ListParts
    \/ ListUploads
    \/ CompleteMultipart
    \/ CancelMultipart

Spec == Init /\ [][Next]_vars

-----------------------------------------------------------------------------
(* Ranged reads.  The store holds one object of L bytes, byte i being the  *)
(* number i, and one GET or HEAD with a Range header is served.            *)

\* the range specifiers: what follows "bytes=" in the Range header
RangeSpecs == UNION {[1..n -> {"0", "2", "3", "5", "-", ","}] : n \in 0..MaxSpecLen}

RangeHeader(rspec) == <<<<RANGE, <<"bytes", "=">> \o rspec>>>>

\* the store after PUT bucket b1 and PUT of the content under b1/k
RangeInit ==
    /\ \E L \in 0..MaxLen :
          backend = set_key(create_bucket(EmptyBackend, "b1", DEFAULT_REGION_NAME).backend,
                            "b1", <<"k">>, [i \in 1..L |-> i - 1], "STANDARD").backend
    /\ request = NoRequest
    /\ response = NoResponse
    /\ threads = <<>>

GetRange ==
    /\ request.op = "None"
    /\ \E rspec \in RangeSpecs :
          Do(KeyRequest("GetRange", "GET", "b1", <<"k">>, EmptyDict, RangeHeader(rspec),
                        Bytes(<<>>)))

HeadRange ==
    /\ request.op = "None"
    /\ \E rspec \in RangeSpecs :
          Do(KeyRequest("HeadRange", "HEAD", "b1", <<"k">>, EmptyDict, RangeHeader(rspec),
                        Bytes(<<>>)))

RangeNext ==
    \/ GetRange
    \/ HeadRange

SpecRange == RangeInit /\ [][RangeNext]_vars

-----------------------------------------------------------------------------
(* Buckets in regions and access control lists *)

\* the region part of the host: none, the default region, another region
Regions == {"", DEFAULT_REGION_NAME, "eu-west-1"}

\* the ACL headers of a request: none, a canned ACL, a grant, or both in
\* either order.  The grant headers are id="x" under grant-read, uri="u"
\* under grant-write, a value without quotes, and a permission that does
\* not exist
AclHeaderSets ==
    LET CannedHeaders == {<<X_AMZ_ACL, "public-read">>, <<X_AMZ_ACL, "authenticated-read">>}
        GrantHeaders ==
            {<<<<GrantPrefix, "read">>, <<"id", "=", QUOTE, "x", QUOTE>>>>,
             <<<<GrantPrefix, "write">>, <<"uri", "=", QUOTE, "u", QUOTE>>>>,
             <<<<GrantPrefix, "read">>, <<"id", "=", "x">>>>,
             <<<<GrantPrefix, "bogus">>, <<"id", "=", QUOTE, "x", QUOTE>>>>}
    IN  {<<>>} \cup {<<c>> : c \in CannedHeaders} \cup {<<g>> : g \in GrantHeaders}
               \cup {<<c, g>> : c \in CannedHeaders, g \in GrantHeaders}
               \cup {<<g, c>> : c \in CannedHeaders, g \in GrantHeaders}

CreateBucketInRegion ==
    /\ \E b \in BucketNames, region \in Regions :
          Do(BucketRequest("CreateBucket", "PUT", b, region, EmptyDict, <<>>))

PutBucketAcl ==
    /\ \E b \in BucketNames, h \in AclHeaderSets :
          Do(BucketRequest("PutBucketAcl", "PUT", b, "", Marker("acl"), h))

PutKeyAcl ==
    /\ \E b \in BucketNames, k \in KeyNames, h \in AclHeaderSets :
          Do(KeyRequest("PutKeyAcl", "PUT", b, k, Marker("acl"), h, Bytes(<<>>)))

PutObjectWithAcl ==
    /\ \E b \in BucketNames, k \in KeyNames, h \in AclHeaderSets :
          Do(KeyRequest("PutObject", "PUT", b, k, EmptyDict, h, Bytes(<<"a">>)))

GetObjectRange ==
    /\ \E b \in BucketNames, k \in KeyNames,
          h \in {<<>>, RangeHeader(<<"0", "-", "0">>), RangeHeader(<<"0">>),
                 RangeHeader(<<"0", "-", "0", ",", "2", "-", "3">>)} :
          Do(KeyRequest("GetObject", "GET", b, k, EmptyDict, h, Bytes(<<>>)))

ListUploadsBy ==
    /\ \E b \in BucketNames, param \in {"prefix", "delimiter", "max-uploads"} :
          Do(BucketRequest("ListUploadsBy", "GET", b, "",
                           Marker("uploads") @@ (param :> <<>>), <<>>))

AclNext ==
    \/ CreateBucketInRegion
    \/ DeleteBucket
    \/ DeleteObject
    \/ PutBucketAcl
    \/ PutKeyAcl
    \/ PutObjectWithAcl
    \/ GetObjectRange
    \/ ListUploadsBy

SpecAcl == Init /\ [][AclNext]_vars

-----------------------------------------------------------------------------
(* Bucket subresources and routing *)

Enabled == <<"E", "n", "a", "b", "l", "e", "d">>

Suspended == <<"S", "u", "s", "p", "e", "n", "d", "e", "d">>

\* bodies of PUT ?versioning: a configuration with a Status element, one
\* without, and the empty body.  The text between <Status> and </Status> is
\* one of the two modes of the protocol, another word, nothing, or a text
\* that is not a word
VersioningBodies ==
    {<<"<VersioningConfiguration>", "<Status>">> \o t
        \o <<"</Status>", "</VersioningConfiguration>">> :
        t \in {Enabled, Suspended, <<"O", "f", "f">>, <<>>, <<"1">>}}
    \cup {<<"<VersioningConfiguration>", "</VersioningConfiguration>">>, <<>>}

PutVersioning ==
    /\ \E b \in BucketNames, body \in VersioningBodies :
          Do([BucketRequest("PutVersioning", "PUT", b, "", Marker("versioning"), <<>>)
                 EXCEPT !.body = Bytes(body)])

GetVersioning ==
    /\ \E b \in BucketNames :
          Do(BucketRequest("GetVersioning", "GET", b, "", Marker("versioning"), <<>>))

PutPolicy ==
    /\ \E b \in BucketNames, body \in {<<>>, <<"a">>, <<"b">>} :
          Do([BucketRequest("PutPolicy", "PUT", b, "", Marker("policy"), <<>>)
                 EXCEPT !.body = Bytes(body)])

GetPolicy ==
    /\ \E b \in BucketNames :
          Do(BucketRequest("GetPolicy", "GET", b, "", Marker("policy"), <<>>))

DeletePolicy ==
    /\ \E b \in BucketNames :
          Do(BucketRequest("DeletePolicy", "DELETE", b, "", Marker("policy"), <<>>))

\* a request with no marker, no header and an empty body (and the form of a
\* browser upload, which POST on a bucket reads), for every method on every
\* target: no bucket, a bucket, a key of a bucket
Route ==
    /\ \E method \in {"GET", "HEAD", "PUT", "DELETE", "POST", "PATCH", "OPTIONS"},
          scope \in {"none", "bucket", "key"}, b \in BucketNames, k \in KeyNames :
          Do([Request("Route", method, IF scope = "none" THEN "" ELSE b, "",
                      IF scope = "key" THEN <<"/">> \o k ELSE <<"/">>,
                      EmptyDict, <<>>, Bytes(<<>>))
                 EXCEPT !.form = [key |-> k, file |-> <<"a">>]])

BucketNext ==
    \/ CreateBucketInRegion
    \/ DeleteBucket
    \/ PutObject
    \/ DeleteObject
    \/ PutVersioning
    \/ GetVersioning
    \/ PutPolicy
    \/ GetPolicy
    \/ DeletePolicy
    \/ Route

SpecBucket == Init /\ [][BucketNext]_vars

-----------------------------------------------------------------------------
(* Objects: streamed uploads, restores and bulk deletion.  The transport    *)
(* calls key_response once per chunk of a streamed upload, every time with *)
(* the same request object and the body of the chunk, and a last time when *)
(* the connection closes; request is that object after the call before.    *)

ObjectNames == {<<"k">>, <<"j">>}

\* the first call of an upload: no header, or a canned ACL and a metadata header
UploadObject ==
    /\ \E b \in BucketNames, k \in ObjectNames, c \in Contents,
          h \in {<<>>, <<<<X_AMZ_ACL, "public-read">>, <<<<"x-amz-meta-", "m">>, <<"v">>>>>>} :
          Do(KeyRequest("PutObject", "PUT", b, k, EmptyDict, h, Bytes(c)))

\* a later call of the same upload with the next chunk
StreamChunk ==
    /\ request.op \in {"PutObject", "StreamChunk"}
    /\ request.streaming
    /\ Len(backend.buckets[request.full_url.bucket]
                   .keys[parse_key_name(request.full_url.path)].value) < MaxStreamLen
    /\ \E c \in {<<"b">>} :
          Do([request EXCEPT !.op = "StreamChunk", !.body = Bytes(c)])

\* the call that closes the connection of the upload
StreamClose ==
    /\ request.op \in {"PutObject", "StreamChunk"}
    /\ request.streaming
    /\ \E c \in {<<>>, <<"b">>} :
          DoWith([request EXCEPT !.op = "StreamClose", !.body = Bytes(c)],
                 "connection" :> "close")

\* POST key ?restore with a <Days> element: a number, or a text that is none
Restore ==
    /\ \E b \in BucketNames, k \in ObjectNames, days \in {<<"1">>, <<"x">>} :
          Do(KeyRequest("Restore", "POST", b, k, Marker("restore"), <<>>, [Days |-> days]))

\* POST /?delete with up to MaxKeys <Key> elements
BulkDelete ==
    /\ \E b \in BucketNames, keys \in UNION {[1..n -> ObjectNames] : n \in 0..MaxKeys} :
          Do([BucketRequest("BulkDelete", "POST", b, "", Marker("delete"), <<>>)
                 EXCEPT !.path = "/?delete", !.body = [Key |-> keys]])

ObjectNext ==
    \/ CreateBucket
    \/ UploadObject
    \/ StreamChunk
    \/ StreamClose
    \/ Restore
    \/ BulkDelete
    \/ DeleteObject

SpecObject == Init /\ [][ObjectNext]_vars

-----------------------------------------------------------------------------
(* Concurrent requests.  The handlers take no lock: a request runs from one *)
(* call of the store to the next, and between two calls the requests of    *)
(* other threads run.  A PUT bucket in the default region makes two calls  *)
(* when the name is taken, create_bucket and then get_bucket; the threads  *)
(* of Threads are followed from the first to the second.  The handlers of  *)
(* DELETE bucket, PUT ?versioning, PUT key and DELETE key make one call    *)
(* that changes the store and run in a thread of their own.                *)

Threads == {1, 2}

ConcurrentInit ==
    /\ backend = EmptyBackend
    /\ request = NoRequest
    /\ response = NoResponse
    /\ threads = [t \in Threads |-> [pc |-> "idle", bucket_name |-> ""]]

\* create_bucket: the request is answered at once when the bucket was
\* created, and is left in the except branch when the name was taken
BeginCreate ==
    /\ \E t \in Threads, b \in BucketNames :
          /\ threads[t].pc = "idle"
          /\ IF create_bucket(backend, b, DEFAULT_REGION_NAME).exc = "BucketAlreadyExists"
             THEN /\ threads' = [threads EXCEPT ![t] = [pc |-> "reuse", bucket_name |-> b]]
                  /\ UNCHANGED <<backend, request, response>>
             ELSE Do(BucketRequest("CreateBucket", "PUT", b, "", EmptyDict, <<>>))

\* get_bucket in the except branch, and the answer
FinishCreate ==
    /\ \E t \in Threads :
          /\ threads[t].pc = "reuse"
          /\ \E r \in {BucketResponseOf(ReuseBucket(backend, threads[t].bucket_name, EmptyDict),
                                        EmptyDict)} :
                /\ backend' = r.backend
                /\ request' = BucketRequest("CreateBucket", "PUT", threads[t].bucket_name, "",
                                            EmptyDict, <<>>)
                /\ response' = r.response
          /\ threads' = [threads EXCEPT ![t] = [pc |-> "idle", bucket_name |-> ""]]

ConcurrentNext ==
    \/ BeginCreate
    \/ FinishCreate
    \/ DeleteBucket
    \/ PutVersioning
    \/ PutObject
    \/ DeleteObject

SpecConcurrent == ConcurrentInit /\ [][ConcurrentNext]_vars

-----------------------------------------------------------------------------
(* Properties of multipart completion *)

Failed(resp) == resp.raised # "None" \/ resp.status >= 400

IsError(resp, code) ==
    resp.raised = "None" /\ resp.status = S3Status(code) /\ resp.body = S3Description(code)

\* what a request names
ReqBucket(req) == req.full_url.bucket

ReqKey(req) == parse_key_name(req.full_url.path)

ReqUpload(req) == req.full_url.query["uploadId"]

ReqParts(req) == req.body.Part

\* the part number an entry of a completion body names
NumberOf(part) == DecimalValue(part.PartNumber)

\* the entries that are not above the entry before them
OutOfOrder(parts) == {i \in 2..Len(parts) : NumberOf(parts[i]) <= NumberOf(parts[i - 1])}

FirstOutOfOrder(parts) == CHOOSE i \in OutOfOrder(parts) : \A j \in OutOfOrder(parts) : i <= j

StrictlyIncreasing(parts) == OutOfOrder(parts) = {}

\* the upload is pending and holds every part the entries before index i name
StoredBefore(be, b, id, parts, i) ==
    /\ HasUpload(be, b, id)
    /\ \A j \in 1..(i - 1) :
          /\ NumberOf(parts[j]) \in DOMAIN Multiparts(be, b)[id].parts
          /\ NumberOf(parts[j]) > 0

\* C1: a completion whose part list has an entry that is not above the
\* entry before it fails with InvalidPartOrder, and no entry at or after the
\* first such entry reaches the store.
C1_OutOfOrderRejected ==
    [][(/\ request'.op = "CompleteMultipart"
        /\ OutOfOrder(ReqParts(request')) # {}
        /\ StoredBefore(backend, ReqBucket(request'), ReqUpload(request'),
                        ReqParts(request'), FirstOutOfOrder(ReqParts(request'))))
       => /\ IsError(response', "InvalidPartOrder")
          /\ Len(_complete_multipart_body(request'.body).yielded)
                < FirstOutOfOrder(ReqParts(request'))]_vars

\* the part lists a pending upload can be completed with
ValidLists(be, b, id) ==
    {parts \in PartLists(MaxBodyLen) :
        /\ Len(parts) > 0
        /\ StrictlyIncreasing(parts)
        /\ \A i \in 1..Len(parts) : NumberOf(parts[i]) \in DOMAIN Multiparts(be, b)[id].parts}

\* C2: a completion that fails with the ordering error changes nothing in
\* the store (the upload stays pending with its parts, no object is created
\* or changed), and the same upload can still be completed with any valid
\* strictly increasing part list.
C2_FailedCompletionKeepsUpload ==
    [][(/\ request'.op = "CompleteMultipart"
        /\ IsError(response', "InvalidPartOrder"))
       => LET b  == ReqBucket(request')
              k  == ReqKey(request')
              id == ReqUpload(request')
          IN  /\ backend' = backend
              /\ HasUpload(backend', b, id)
              /\ \A valid \in ValidLists(backend', b, id) :
                    LET r == Dispatch(backend', CompleteRequest(b, k, id, valid)) IN
                    /\ r.response.raised = "None"
                    /\ r.response.status = 200
                    /\ ~HasUpload(r.backend, b, id)]_vars

\* a completion failed with the ordering error on a pending upload that
\* holds parts it can be completed with
C2_Witness ==
    /\ request.op = "CompleteMultipart"
    /\ IsError(response, "InvalidPartOrder")
    /\ HasUpload(backend, ReqBucket(request), ReqUpload(request))
    /\ ValidLists(backend, ReqBucket(request), ReqUpload(request)) # {}

\* the contents of the parts numbered in S, by rising part number up to n
RECURSIVE JoinUpTo(_, _, _)
JoinUpTo(parts, S, n) ==
    IF n = 0 THEN <<>>
    ELSE JoinUpTo(parts, S, n - 1) \o (IF n \in S THEN parts[n] ELSE <<>>)

Referenced(parts) == {NumberOf(parts[i]) : i \in 1..Len(parts)}

\* C3: a part upload leaves that part number holding the content written
\* last; a successful completion stores, under the upload's target key, the
\* contents of the referenced parts joined by rising part number, and
\* removes the upload from the pending uploads of the bucket.
C3_CompletionConcatenates ==
    [][/\ (request'.op = "CompleteMultipart" /\ ~Failed(response'))
          => LET b  == ReqBucket(request')
                 id == ReqUpload(request')
             IN  /\ HasUpload(backend, b, id)
                 /\ ~HasUpload(backend', b, id)
                 /\ LET upload == Multiparts(backend, b)[id] IN
                    /\ Referenced(ReqParts(request')) \subseteq DOMAIN upload.parts
                    /\ upload.key_name \in DOMAIN backend'.buckets[b].keys
                    /\ backend'.buckets[b].keys[upload.key_name].value
                          = JoinUpTo(upload.parts, Referenced(ReqParts(request')), MaxPart)
       /\ (request'.op = "UploadPart" /\ ~Failed(response'))
          => LET b  == ReqBucket(request')
                 id == ReqUpload(request')
                 pn == DecimalValue(request'.full_url.query["partNumber"])
             IN  /\ HasUpload(backend', b, id)
                 /\ pn \in DOMAIN Multiparts(backend', b)[id].parts
                 /\ Multiparts(backend', b)[id].parts[pn] = request'.body.bytes]_vars

\* an upload whose parts 1 and 2 were written, part 1 twice, was completed
\* with both parts: the object is the last content of part 1 followed by
\* part 2
C3_Witness ==
    /\ request.op = "CompleteMultipart"
    /\ ~Failed(response)
    /\ Referenced(ReqParts(request)) = {1, 2}
    /\ ReqKey(request) \in DOMAIN backend.buckets[ReqBucket(request)].keys
    /\ backend.buckets[ReqBucket(request)].keys[ReqKey(request)].value = <<"b", "a">>

Pending(be, id) == \E b \in DOMAIN be.buckets : HasUpload(be, b, id)

\* the upload id was handed out and is no longer pending: completed,
\* cancelled or discarded with its bucket
Finished(be, id) == id <= be.issued /\ ~Pending(be, id)

\* the requests that name an upload id
NamesUpload(req) ==
    req.op \in {"UploadPart", "ListParts", "CompleteMultipart", "CancelMultipart"}

\* C4: an upload id that has been completed or cancelled never becomes
\* pending again and is never listed among the pending uploads, and every
\* part upload, part listing, completion or cancel that names an id that is
\* not pending fails and leaves the store as it was.
C4_FinishedIsTerminal ==
    [][/\ \A id \in UploadIds : Finished(backend, id) => Finished(backend', id)
       /\ (NamesUpload(request') /\ ~Pending(backend, ReqUpload(request')))
          => Failed(response') /\ backend' = backend
       /\ (request'.op = "ListUploads" /\ ~Failed(response'))
          => \A u \in response'.body.values.uploads : ~Finished(backend', u.id)]_vars

\* a cancel naming an upload that was completed before has just failed
C4_Witness ==
    /\ request.op = "CancelMultipart"
    /\ Finished(backend, ReqUpload(request))
    /\ HasBucket(backend, ReqBucket(request))
    /\ ReqKey(request) \in DOMAIN backend.buckets[ReqBucket(request)].keys
    /\ Failed(response)

-----------------------------------------------------------------------------
(* Properties of ranged reads *)

RangeOps == {"GetRange", "HeadRange"}

\* what follows "bytes=" in the Range header of a request
RangeSpecOf(req) == split(GetHeader(req.headers, RANGE, <<>>), "=")[2]

\* a single range specifier: digits, one "-", digits, either run possibly empty
SingleRange(rspec) ==
    /\ Cardinality({i \in 1..Len(rspec) : rspec[i] = "-"}) = 1
    /\ \A i \in 1..Len(rspec) : rspec[i] \in Digits \cup {"-"}

\* the reference rules: the answer to the range rspec over the plain answer
\* base (the answer to the same request without its Range header), whose
\* body holds the L bytes of the object
Reference(rspec, base) ==
    LET L      == Len(base.body.bytes)
        dash   == CHOOSE i \in 1..Len(rspec) : rspec[i] = "-"
        first  == SubSeq(rspec, 1, dash - 1)
        second == SubSeq(rspec, dash + 1, Len(rspec))
        begin  == IF first # <<>> THEN DecimalValue(first)
                  ELSE L - Min(DecimalValue(second), L)
        end    == IF first # <<>> /\ second # <<>> THEN Min(DecimalValue(second), L - 1)
                  ELSE L - 1
    IN
    IF first = <<>> /\ second = <<>> THEN Response(400, base.headers, Bytes(<<>>))
    ELSE IF begin < 0 \/ end > L - 1 \/ begin > Min(end, L - 1)
    THEN Response(416, base.headers, Bytes(<<>>))
    ELSE Response(206,
                  [h \in DOMAIN base.headers \cup {"content-range"} |->
                      IF h = "content-range"
                      THEN <<"bytes", " ">> \o str(begin) \o <<"-">> \o str(end)
                                            \o <<"/">> \o str(L)
                      ELSE base.headers[h]],
                  Bytes([i \in 1..(end - begin + 1) |-> base.body.bytes[begin + i]]))

\* C5: for every content length and every single range specifier the answer
\* to a ranged read is what the reference rules give: 400 with neither
\* number, 416 for an unsatisfiable range, otherwise 206 with Content-Range
\* "bytes begin-end/L" and exactly the bytes begin..end.
C5_RangeMatchesReference ==
    (request.op \in RangeOps /\ SingleRange(RangeSpecOf(request)))
    => response = Reference(RangeSpecOf(request),
                            Dispatch(backend, [request EXCEPT !.headers = <<>>]).response)

\* Range: bytes=2-5 on an object of 10 bytes was answered with bytes 2..5
\* and Content-Range: bytes 2-5/10
C5_Witness ==
    /\ request.op = "GetRange"
    /\ RangeSpecOf(request) = <<"2", "-", "5">>
    /\ Len(backend.buckets["b1"].keys[<<"k">>].value) = 10
    /\ response.status = 206
    /\ response.body = Bytes(<<2, 3, 4, 5>>)
    /\ response.headers["content-range"]
          = <<"bytes", " ", "2", "-", "5", "/", "1", "0">>

\* C6: a Range header naming several ranges is answered with a status,
\* headers and body; no exception leaves key_response.
C6_MultipleRangesAnswered ==
    (request.op \in RangeOps /\ \E i \in 1..Len(RangeSpecOf(request)) :
                                   RangeSpecOf(request)[i] = ",")
    => response.raised = "None"

-----------------------------------------------------------------------------
(* Properties of error conversion, access control lists and bucket names *)

\* C7: whatever the request, bucket_response / key_response return a status,
\* headers and body; the only exception that may leave them is the
\* not-implemented error of a method or marker the routing table lacks.
C7_RecoverableConverted ==
    response.raised # "None" => response.msg \in {NotImplementedMethod, NotImplementedPost}

AclOps == {"PutBucketAcl", "PutKeyAcl", "PutObject"}

NoAclHeaders(headers) ==
    \A i \in 1..Len(headers) :
        headers[i][1] # X_AMZ_ACL /\ headers[i][1][1] # GrantPrefix

HasKey(be, b, k) == HasBucket(be, b) /\ k \in DOMAIN be.buckets[b].keys

\* C8: a PUT bucket ?acl, a PUT key ?acl or an object upload that carries
\* no ACL header leaves the ACL stored for the bucket or the object as it was.
C8_NoAclHeadersKeepAcl ==
    [][(request'.op \in AclOps /\ NoAclHeaders(request'.headers) /\ ~Failed(response'))
       => LET b == ReqBucket(request')
              k == ReqKey(request')
          IN  /\ request'.op = "PutBucketAcl"
                    => backend'.buckets[b].acl = backend.buckets[b].acl
              /\ (request'.op # "PutBucketAcl" /\ HasKey(backend, b, k))
                    => backend'.buckets[b].keys[k].acl = backend.buckets[b].keys[k].acl]_vars

\* the value of the x-amz-acl header of a request, "" when it has none
CannedOf(req) == GetHeader(req.headers, X_AMZ_ACL, "")

\* C9: with a non-empty x-amz-acl header the ACL resolver returns the canned
\* expansion of that name whatever x-amz-grant-* headers come with it, well
\* formed or not: no grant header is parsed, and the ACL the request stores
\* is the canned expansion.
C9_CannedAclIgnoresGrants ==
    (request.op \in AclOps /\ CannedOf(request) # "")
    => /\ _acl_from_headers(request.headers)
             = [raised |-> "None", ret |-> get_canned_acl(CannedOf(request))]
       /\ response.msg # "grant"
       /\ ~Failed(response)
             => IF request.op = "PutBucketAcl"
                THEN backend.buckets[ReqBucket(request)].acl
                        = get_canned_acl(CannedOf(request))
                ELSE backend.buckets[ReqBucket(request)].keys[ReqKey(request)].acl
                        = get_canned_acl(CannedOf(request))

\* a PUT bucket ?acl carried x-amz-acl: public-read next to a grant header
\* whose value has no quotes, and the bucket got the public-read expansion
C9_Witness ==
    /\ request.op = "PutBucketAcl"
    /\ CannedOf(request) = "public-read"
    /\ \E i \in 1..Len(request.headers) :
          /\ request.headers[i][1][1] = GrantPrefix
          /\ ~re_match(request.headers[i][2]).ok
    /\ ~Failed(response)
    /\ backend.buckets[ReqBucket(request)].acl = get_canned_acl("public-read")

\* the region a PUT bucket request asks for
RequestedRegion(req) ==
    IF req.full_url.region # "" THEN req.full_url.region ELSE DEFAULT_REGION_NAME

\* C10: a PUT bucket for a name that is taken fails with BucketAlreadyExists
\* when the requested region is not the default region and returns 200 for
\* the existing bucket when it is; either way the store is left as it was.
C10_DuplicateBucketName ==
    [][(request'.op = "CreateBucket" /\ HasBucket(backend, ReqBucket(request')))
       => /\ backend' = backend
          /\ IF RequestedRegion(request') = DEFAULT_REGION_NAME
             THEN /\ ~Failed(response')
                  /\ response'.status = 200
                  /\ response'.body.values.bucket = ReqBucket(request')
             ELSE IsError(response', "BucketAlreadyExists")]_vars

\* a PUT bucket from another region named an existing bucket of the default
\* region that holds an object, and failed with BucketAlreadyExists
C10_Witness ==
    /\ request.op = "CreateBucket"
    /\ RequestedRegion(request) = "eu-west-1"
    /\ IsError(response, "BucketAlreadyExists")
    /\ HasKey(backend, ReqBucket(request), <<"k">>)
    /\ backend.buckets[ReqBucket(request)].location = DEFAULT_REGION_NAME

-----------------------------------------------------------------------------
(* Properties of bucket deletion, versioning, routing and policies *)

\* C11: a DELETE bucket on a bucket that owns an object answers the 409
\* BucketNotEmpty conflict and changes nothing; on a bucket that owns no
\* object it answers 204 and removes the bucket, and a PUT bucket for the
\* same name then succeeds and creates a new bucket.
C11_DeleteBucketOnlyWhenEmpty ==
    [][(request'.op = "DeleteBucket" /\ HasBucket(backend, ReqBucket(request')))
       => LET b == ReqBucket(request') IN
          IF DOMAIN backend.buckets[b].keys # {}
          THEN /\ response' = Response(409, EmptyDict,
                                       render("S3_DELETE_BUCKET_WITH_ITEMS_ERROR", None))
               /\ backend' = backend
          ELSE /\ response'.raised = "None"
               /\ response'.status = 204
               /\ ~HasBucket(backend', b)
               /\ \A region \in Regions :
                     LET create == BucketRequest("CreateBucket", "PUT", b, region,
                                                 EmptyDict, <<>>)
                         r == Dispatch(backend', create)
                     IN  /\ r.response.raised = "None"
                         /\ r.response.status = 200
                         /\ HasBucket(r.backend, b)
                         /\ r.backend.buckets[b] = FakeBucket(b, RequestedRegion(create))]_vars

\* a DELETE bucket was refused with 409 on a bucket that holds an object, a
\* policy and a versioning mode
C11_Witness ==
    /\ request.op = "DeleteBucket"
    /\ response.status = 409
    /\ HasKey(backend, ReqBucket(request), <<"k">>)
    /\ backend.buckets[ReqBucket(request)].policy = Bytes(<<"a">>)
    /\ backend.buckets[ReqBucket(request)].versioning_status = Enabled

\* C12: the versioning mode of every bucket is Unset, Enabled or Suspended,
\* whatever the bodies of the PUT ?versioning requests were.
C12_VersioningModeValid ==
    \A b \in DOMAIN backend.buckets :
        backend.buckets[b].versioning_status \in {<<>>, Enabled, Suspended}

GetPolicyRequest(b) == BucketRequest("GetPolicy", "GET", b, "", Marker("policy"), <<>>)

\* the target of a request
ScopeOf(req) ==
    IF req.full_url.bucket = "" THEN "none"
    ELSE IF parse_key_name(req.full_url.path) = <<>> THEN "bucket" ELSE "key"

\* the rows of the routing table that need no marker
Routed(method, scope) ==
    CASE scope = "none" -> method = "GET"
      [] scope = "bucket" -> method \in {"HEAD", "GET", "PUT", "DELETE", "POST"}
      [] scope = "key" -> method \in {"GET", "PUT", "HEAD", "DELETE"}

\* C13: a request without markers whose method and scope are not a row of
\* the routing table fails with the not-implemented error and leaves the
\* store as it was: for no bucket only GET is routed, for a key POST is not.
C13_UnroutedNotImplemented ==
    [][(request'.op = "Route" /\ ~Routed(request'.method, ScopeOf(request')))
       => /\ response'.raised = "NotImplementedError"
          /\ backend' = backend]_vars

\* C15: after a PUT ?policy with body B a GET ?policy answers 200 with
\* exactly B; a GET ?policy answers the 404 NoSuchBucketPolicy error exactly
\* when the bucket has no policy: none was set, or it was deleted since.
C15_PolicyRoundTrip ==
    [][/\ (request'.op = "PutPolicy" /\ ~Failed(response'))
          => Dispatch(backend', GetPolicyRequest(ReqBucket(request'))).response
                = Response(200, EmptyDict, request'.body)
       /\ (request'.op = "DeletePolicy" /\ ~Failed(response'))
          => Dispatch(backend', GetPolicyRequest(ReqBucket(request'))).response.status = 404
       /\ (request'.op = "GetPolicy" /\ HasBucket(backend, ReqBucket(request')))
          => (response'.status = 404
                <=> backend.buckets[ReqBucket(request')].policy = None)]_vars

-----------------------------------------------------------------------------
(* Properties of restores, streamed uploads and bulk deletion *)

\* the status a POST ?restore on the key k of the bucket b would get
RestoreStatus(be, b, k) ==
    Dispatch(be, KeyRequest("Restore", "POST", b, k, Marker("restore"), <<>>,
                            [Days |-> <<"1">>])).response.status

\* C14: a restore of an existing object answers 202 when the object has
\* never been restored and 200 when it has: the restore after an upload
\* answers 202, the restore after a restore answers 200, and requests that
\* leave the object as it is leave that answer as it is.
C14_RestoreFirst202Then200 ==
    [][/\ (request'.op = "PutObject" /\ ~Failed(response'))
          => RestoreStatus(backend', ReqBucket(request'), ReqKey(request')) = 202
       /\ (request'.op = "Restore" /\ ~Failed(response'))
          => /\ response'.status = RestoreStatus(backend, ReqBucket(request'), ReqKey(request'))
             /\ response'.status \in {200, 202}
             /\ RestoreStatus(backend', ReqBucket(request'), ReqKey(request')) = 200
       /\ \A b \in BucketNames, k \in ObjectNames :
             (/\ HasKey(backend, b, k)
              /\ HasKey(backend', b, k)
              /\ backend'.buckets[b].keys[k] = backend.buckets[b].keys[k])
             => RestoreStatus(backend', b, k) = RestoreStatus(backend, b, k)]_vars

\* a restore of an object restored before was answered 200, and the other
\* object of the bucket, never restored, would be answered 202
C14_Witness ==
    /\ request.op = "Restore"
    /\ ReqKey(request) = <<"k">>
    /\ response.raised = "None"
    /\ response.status = 200
    /\ HasKey(backend, ReqBucket(request), <<"j">>)
    /\ RestoreStatus(backend, ReqBucket(request), <<"j">>) = 202

\* C17: the first call of an upload stores its body as the object's content
\* with the metadata and the ACL of its headers and marks the request as
\* streaming; a later call appends its body to the content and changes
\* nothing else; the closing call changes nothing in the store.
C17_StreamedUploadAssembles ==
    [][LET b == ReqBucket(request')
           k == ReqKey(request')
       IN  /\ (request'.op = "PutObject" /\ ~Failed(response'))
              => /\ request'.streaming
                 /\ HasKey(backend', b, k)
                 /\ backend'.buckets[b].keys[k].value = request'.body.bytes
                 /\ backend'.buckets[b].keys[k].metadata
                       = metadata_from_headers(request'.headers)
                 /\ ~NoAclHeaders(request'.headers)
                       => backend'.buckets[b].keys[k].acl
                             = _acl_from_headers(request'.headers).ret
           /\ request'.op = "StreamChunk"
              => /\ ~Failed(response')
                 /\ backend' = StoreKey(backend, b,
                                        [backend.buckets[b].keys[k]
                                            EXCEPT !.value = @ \o request'.body.bytes])
           /\ request'.op = "StreamClose"
              => /\ ~Failed(response')
                 /\ backend' = backend]_vars

\* an upload of "a" with a canned ACL and a metadata header, continued with
\* the chunk "b", was closed: the object holds "ab" with that ACL and metadata
C17_Witness ==
    /\ request.op = "StreamClose"
    /\ ~Failed(response)
    /\ HasKey(backend, ReqBucket(request), ReqKey(request))
    /\ LET key == backend.buckets[ReqBucket(request)].keys[ReqKey(request)]
       IN  /\ key.value = <<"a", "b">>
           /\ key.acl = get_canned_acl("public-read")
           /\ key.metadata = ("m" :> <<"v">>)

\* the elements of keys at the indices in S, up to index n, in their order
RECURSIVE Pick(_, _, _)
Pick(keys, S, n) ==
    IF n = 0 THEN <<>>
    ELSE Pick(keys, S, n - 1) \o (IF n \in S THEN <<keys[n]>> ELSE <<>>)

\* C18: a bulk deletion answers 200 and reports every <Key> element once, in
\* the order of the body: as Deleted when the bucket held the key and no
\* earlier element named it, as Error otherwise.  The keys named are removed
\* and the other keys of the bucket stay as they were.
C18_BulkDeleteReportsEveryKey ==
    [][(request'.op = "BulkDelete" /\ HasBucket(backend, ReqBucket(request')))
       => LET b    == ReqBucket(request')
              keys == request'.body.Key
              had  == DOMAIN backend.buckets[b].keys
              Deleted == {i \in 1..Len(keys) :
                             keys[i] \in had /\ \A j \in 1..(i - 1) : keys[j] # keys[i]}
          IN  /\ response'
                    = Response(200, EmptyDict,
                               render("S3_DELETE_KEYS_RESPONSE",
                                      [deleted |-> Pick(keys, Deleted, Len(keys)),
                                       delete_errors |->
                                           Pick(keys, (1..Len(keys)) \ Deleted, Len(keys))]))
              /\ backend'
                    = SetBucket(backend, b,
                                [backend.buckets[b] EXCEPT
                                    !.keys = [n \in had \ {keys[i] : i \in 1..Len(keys)}
                                                 |-> backend.buckets[b].keys[n]]])]_vars

\* a bulk deletion named a missing key before a stored one: the missing key
\* was reported as Error, the stored one was deleted after it, and the key
\* that the body did not name is still there
C18_Witness ==
    /\ request.op = "BulkDelete"
    /\ request.body.Key = <<<<"j">>, <<"j">>>>
    /\ response.status = 200
    /\ response.body.values.deleted = <<<<"j">>>>
    /\ response.body.values.delete_errors = <<<<"j">>>>
    /\ HasKey(backend, ReqBucket(request), <<"k">>)

-----------------------------------------------------------------------------
(* Properties of concurrent requests *)

\* the bucket of that name, None when the store has none
BucketOf(be, b) == IF HasBucket(be, b) THEN be.buckets[b] ELSE None

\* C16: at most one structural mutation is in flight per bucket: while a
\* create is between finding the name taken and reusing the bucket, no other
\* request deletes that bucket, changes its versioning mode or writes an
\* object of it.
C16_OneMutationInFlight ==
    [][\A t \in Threads :
          (threads[t].pc = "reuse" /\ threads'[t] = threads[t])
          => BucketOf(backend', threads[t].bucket_name)
                = BucketOf(backend, threads[t].bucket_name)]_vars

\* what the exclusion would give the client: a create in the default region
\* is never answered NoSuchBucket
CreateNeverAnsweredMissing ==
    ~(/\ request.op = "CreateBucket"
      /\ response.status = 404)

====
